---- MODULE Spec2Model ----
(***************************************************************************)
(* A model of fiftyone/utils/torch.py: the output processors, the MinResize *)
(* transform, the TorchModel wrapper and the dataset adapters.              *)
(*                                                                          *)
(* Numbers.  Scores, thresholds, box coordinates and probabilities are      *)
(* exact rationals <<n, d>> with d > 0, kept in lowest terms, so that       *)
(* comparisons (score < thresh) and the arithmetic of the code (x1 / width, *)
(* (x2 - x1) / width, alpha * h) are computed and not assumed.  The boxes   *)
(* and keypoints are float32 values: the difference of two of them rounds  *)
(* as float32 does.  A float32 divided by a Python int is a float64 (the    *)
(* scalar arithmetic of NumPy 1.x, for which the code was written); the     *)
(* float64 is held as the exact quotient, of which it is the nearest        *)
(* float64, within 2^-53 of it in relative terms.  np.exp is a table of e^x *)
(* in thousandths; its rounding error and overflow, and NaN, are outside    *)
(* the model.                                                               *)
(*                                                                          *)
(* Python values.  None is the empty tuple and a present optional value v   *)
(* is <<v>>.  A call either returns, [ret |-> v], or raises, [exc |-> e].   *)
(***************************************************************************)
EXTENDS Integers, Sequences, FiniteSets, TLC

VARIABLES
    processor,  \* the OutputProcessor object: its class and its fields
    config,     \* the TorchModelConfig handed to TorchModel.__init__
    model,      \* the TorchModel object: its fields, or None before __init__
    resizer,    \* the MinResize object: its fields
    args,       \* the arguments of the call under consideration
    called,     \* the method that was called, "none" before the call
    trace,      \* what the call handed to its collaborators on the way
    result,     \* what the call returned or raised
    files       \* the image files that are open, each with what refers to it

vars == <<processor, config, model, resizer, args, called, trace, result, files>>

----------------------------------------------------------------------------
(* Bounds of the model *)

\* the largest number of images in a batch
MaxBatch == 2
\* the largest number of candidates (detections) in a batch
MaxK == 2
\* the largest number of classes of a logits matrix
MaxClasses == 3
\* the largest height / width of an image, in pixels
MaxDim == 4
\* the largest minimum height / width a MinResize is built with
MaxMin == 4
\* the largest height / width of an image handed to a TorchModel
MaxImgDim == 2
\* the __getitem__ calls made on a dataset
MaxCalls == 2

----------------------------------------------------------------------------
(* Python values *)

None == <<>>
Some(v) == <<v>>
Return(v) == [ret |-> v]
Raise(e) == [exc |-> e]
IsExc(r) == "exc" \in DOMAIN r
IsRet(r) == "ret" \in DOMAIN r

\* a Python list, told apart from a dict by its type
PyList(items) == [type |-> "list", items |-> items]

Min(a, b) == IF a <= b THEN a ELSE b
Max(a, b) == IF a >= b THEN a ELSE b
Abs(a) == IF a < 0 THEN -a ELSE a

RECURSIVE Gcd(_, _)
Gcd(a, b) == IF b = 0 THEN a ELSE Gcd(b, a % b)

\* the rational n / d (d # 0) in lowest terms with a positive denominator
Rat(n, d) ==
    LET g == Gcd(Abs(n), Abs(d))
        s == IF d < 0 THEN -1 ELSE 1
    IN  <<(s * n) \div g, (s * d) \div g>>
RInt(n) == <<n, 1>>
RLess(a, b) == a[1] * b[2] < b[1] * a[2]
RLeq(a, b) == a[1] * b[2] <= b[1] * a[2]
RSub(a, b) == Rat(a[1] * b[2] - b[1] * a[2], a[2] * b[2])
RMul(a, b) == Rat(a[1] * b[1], a[2] * b[2])
RDiv(a, b) == Rat(a[1] * b[2], a[2] * b[1])
RMax(a, b) == IF RLess(a, b) THEN b ELSE a
Floor(a) == a[1] \div a[2]

\* numpy float32: the arrays that .numpy() returns for the network's float tensors
\* hold IEEE binary32 values, and the difference of two of them is rounded to a
\* 24-bit significand, a tie to the even one. The magnitude n / d is brought to
\* the form (m + r / d) / 2^e with 2^23 <= m < 2^24 and 0 <= r < d: doubled while
\* m has fewer than 24 bits, halved while it has more.
RECURSIVE F32Norm(_, _, _, _)
F32Norm(m, r, d, e) ==
    IF m >= 2^24 THEN F32Norm(m \div 2, (m % 2) * d + r, 2 * d, e - 1)
    ELSE IF m >= 2^23 THEN <<m, r, d, e>>
    ELSE F32Norm(2 * m + (2 * r) \div d, (2 * r) % d, d, e + 1)

RECURSIVE IsPow2(_)
IsPow2(d) == d = 1 \/ (d % 2 = 0 /\ IsPow2(d \div 2))

\* the float32 nearest to n / d, for d > 0: n / d itself when its numerator in
\* lowest terms has at most 24 bits over a power of two, and otherwise the 24-bit
\* significand of F32Norm, rounded up when the rest r / d is above a half, or is
\* a half and the significand odd.  Magnitudes outside the exponent range of
\* float32 (below 2^-126, above 2^127) are outside the model.
F32Round(n, d) ==
    IF Abs(Rat(n, d)[1]) < 2^24 /\ IsPow2(Rat(n, d)[2]) THEN Rat(n, d)
    ELSE LET s == F32Norm(Abs(n) \div d, Abs(n) % d, d, 0)
             up == 2 * s[2] > s[3] \/ (2 * s[2] = s[3] /\ s[1] % 2 = 1)
             m == IF up THEN s[1] + 1 ELSE s[1]
         IN  IF s[4] >= 0 THEN Rat(IF n < 0 THEN -m ELSE m, 2^(s[4]))
             ELSE RInt((IF n < 0 THEN -m ELSE m) * 2^(-s[4]))

\* float32 - float32
F32Sub(a, b) == F32Round(a[1] * b[2] - b[1] * a[2], a[2] * b[2])

\* Python 3 round(): to the nearest integer, a tie to the even one
Round(a) ==
    LET f == Floor(a)
        twice == RSub(RMul(RInt(2), a), RInt(2 * f))   \* 2 * (a - f), in [0, 2)
    IN  IF RLess(twice, RInt(1)) THEN f
        ELSE IF RLess(RInt(1), twice) THEN f + 1
        ELSE IF f % 2 = 0 THEN f ELSE f + 1

\* list[i] of Python: 0-based, a negative index counts from the end
PyIndex(list, i) ==
    IF 0 <= i /\ i < Len(list) THEN Return(list[i + 1])
    ELSE IF -Len(list) <= i /\ i < 0 THEN Return(list[Len(list) + i + 1])
    ELSE Raise("IndexError")

\* the bounds of list[a:b] of Python for a list of n items, as 0-based [lo, hi)
PySlice(list, a, b) ==
    LET n == Len(list)
        lo == IF a < 0 THEN Max(n + a, 0) ELSE Min(a, n)
        hi == IF b < 0 THEN Max(n + b, 0) ELSE Min(b, n)
    IN  IF hi <= lo THEN <<>> ELSE SubSeq(list, lo + 1, hi)

----------------------------------------------------------------------------
(* fiftyone.core.labels: the label objects the processors build *)

Classification(label, confidence) ==
    [type |-> "Classification", label |-> label, confidence |-> confidence]

Detection(label, bounding_box, confidence) ==
    [type |-> "Detection", label |-> label, bounding_box |-> bounding_box,
     confidence |-> confidence]

MaskedDetection(label, bounding_box, mask, confidence) ==
    [type |-> "Detection", label |-> label, bounding_box |-> bounding_box,
     mask |-> mask, confidence |-> confidence]

Detections(detections) == [type |-> "Detections", detections |-> detections]

Keypoint(label, points, confidence) ==
    [type |-> "Keypoint", label |-> label, points |-> points,
     confidence |-> confidence]

Keypoints(keypoints) == [type |-> "Keypoints", keypoints |-> keypoints]

Polyline(points, confidence, closed, filled) ==
    [type |-> "Polyline", points |-> points, confidence |-> confidence,
     closed |-> closed, filled |-> filled]

Polylines(polylines) == [type |-> "Polylines", polylines |-> polylines]

Segmentation(mask) == [type |-> "Segmentation", mask |-> mask]

----------------------------------------------------------------------------
(* The output processors *)

\* ClassifierOutputProcessor.__init__
ClassifierInit(class_labels, confidence_thresh) ==
    [cls |-> "ClassifierOutputProcessor", class_labels |-> class_labels,
     confidence_thresh |-> confidence_thresh]

\* DetectorOutputProcessor.__init__
DetectorInit(class_labels, confidence_thresh) ==
    [cls |-> "DetectorOutputProcessor", class_labels |-> class_labels,
     confidence_thresh |-> confidence_thresh]

\* InstanceSegmenterOutputProcessor.__init__
InstanceSegmenterInit(class_labels, confidence_thresh, mask_thresh) ==
    [cls |-> "InstanceSegmenterOutputProcessor", class_labels |-> class_labels,
     confidence_thresh |-> confidence_thresh, mask_thresh |-> mask_thresh]

\* KeypointDetectorOutputProcessor.__init__
KeypointInit(class_labels, edges, confidence_thresh) ==
    [cls |-> "KeypointDetectorOutputProcessor", class_labels |-> class_labels,
     edges |-> edges, confidence_thresh |-> confidence_thresh]

\* SegmenterOutputProcessor.__init__
SegmenterInit(class_labels) ==
    [cls |-> "SegmenterOutputProcessor", class_labels |-> class_labels]

\* the entry of a predictions list that holds no label (Python's None)
NoLabel == [type |-> "None"]

\* np.exp, in thousandths, on the logits of the model
Exp(x) ==
    CASE x = -3 -> 50
      [] x = -2 -> 135
      [] x = -1 -> 368
      [] x = 0 -> 1000
      [] x = 1 -> 2718
      [] x = 2 -> 7389
      [] x = 3 -> 20086

RECURSIVE SumSeq(_)
SumSeq(s) == IF s = <<>> THEN 0 ELSE Head(s) + SumSeq(Tail(s))

\* np.argmax of a row: the 0-based index of the first largest entry
ArgMax(row) ==
    (CHOOSE j \in 1..Len(row) :
        /\ \A k \in 1..Len(row) : row[k] <= row[j]
        /\ \A k \in 1..(j - 1) : row[k] < row[j]) - 1

\* odds = np.exp(logits); odds /= np.sum(odds, axis=1, keepdims=True)
Softmax(row) ==
    LET odds == [j \in 1..Len(row) |-> Exp(row[j])]
    IN  [j \in 1..Len(row) |-> Rat(odds[j], SumSeq(odds))]

\* np.max of a row of rationals
RECURSIVE RMaxSeq(_)
RMaxSeq(s) == IF Len(s) = 1 THEN s[1] ELSE RMax(s[1], RMaxSeq(Tail(s)))

\* BelowThresh with <= for <: a score at the threshold is dropped
BelowThreshLeq(self, score) ==
    /\ self.confidence_thresh # None
    /\ RLeq(score, self.confidence_thresh[1])

\* self.confidence_thresh is not None and score < self.confidence_thresh
BelowThresh(self, score) ==
    /\ self.confidence_thresh # None
    /\ RLess(score, self.confidence_thresh[1])

\* ClassifierLoop that skips an image below the threshold (continue for None)
RECURSIVE ClassifierLoopSkip(_, _, _, _, _)
ClassifierLoopSkip(self, predictions, scores, i, preds) ==
    IF i > Min(Len(predictions), Len(scores)) THEN Return(PyList(preds))
    ELSE IF BelowThresh(self, scores[i])
    THEN ClassifierLoopSkip(self, predictions, scores, i + 1, preds)
    ELSE LET name == PyIndex(self.class_labels, predictions[i])
         IN  IF IsExc(name) THEN name
             ELSE ClassifierLoopSkip(self, predictions, scores, i + 1,
                      Append(preds, Classification(name.ret, scores[i])))

\* the loop of ClassifierOutputProcessor.__call__ from entry i on
RECURSIVE ClassifierLoop(_, _, _, _, _)
ClassifierLoop(self, predictions, scores, i, preds) ==
    IF i > Min(Len(predictions), Len(scores)) THEN Return(PyList(preds))
    ELSE IF BelowThresh(self, scores[i])
    THEN ClassifierLoop(self, predictions, scores, i + 1, Append(preds, NoLabel))
    ELSE LET name == PyIndex(self.class_labels, predictions[i])
         IN  IF IsExc(name) THEN name
             ELSE ClassifierLoop(self, predictions, scores, i + 1,
                      Append(preds, Classification(name.ret, scores[i])))

ClassifierCall(self, output, frame_size) ==
    LET logits == output
        predictions == [i \in 1..Len(logits) |-> ArgMax(logits[i])]
        odds == [i \in 1..Len(logits) |-> Softmax(logits[i])]
        scores == [i \in 1..Len(logits) |-> RMaxSeq(odds[i])]
    IN  ClassifierLoop(self, predictions, scores, 1, <<>>)

\* the box as its corners over the frame: (x1, y1, x2, y2) / (width, height)
BoundingBoxCorners(box, width, height) ==
    <<RDiv(box[1], RInt(width)),
      RDiv(box[2], RInt(height)),
      RDiv(box[3], RInt(width)),
      RDiv(box[4], RInt(height))>>

\* [x1 / width, y1 / height, (x2 - x1) / width, (y2 - y1) / height]: x1, y1, x2
\* and y2 are numpy.float32 and their differences are rounded to float32; width
\* and height are Python ints, and a float32 over an int is a float64 quotient
BoundingBox(box, width, height) ==
    <<RDiv(box[1], RInt(width)),
      RDiv(box[2], RInt(height)),
      RDiv(F32Sub(box[3], box[1]), RInt(width)),
      RDiv(F32Sub(box[4], box[2]), RInt(height))>>

\* the number of rounds of zip(a, b, c)
Zip3Len(a, b, c) == Min(Len(a), Min(Len(b), Len(c)))

\* DetectorLoop that inserts each detection at the front of the list
RECURSIVE DetectorLoopFront(_, _, _, _, _, _)
DetectorLoopFront(self, output, width, height, i, detections) ==
    IF i > Zip3Len(output.boxes, output.labels, output.scores)
    THEN Return(Detections(detections))
    ELSE IF BelowThresh(self, output.scores[i])
    THEN DetectorLoopFront(self, output, width, height, i + 1, detections)
    ELSE LET bounding_box == BoundingBox(output.boxes[i], width, height)
             name == PyIndex(self.class_labels, output.labels[i])
         IN  IF IsExc(name) THEN name
             ELSE DetectorLoopFront(self, output, width, height, i + 1,
                      <<Detection(name.ret, bounding_box, output.scores[i])>>
                          \o detections)

\* the loop of DetectorOutputProcessor._parse_detections from candidate i on
RECURSIVE DetectorLoop(_, _, _, _, _, _)
DetectorLoop(self, output, width, height, i, detections) ==
    IF i > Zip3Len(output.boxes, output.labels, output.scores)
    THEN Return(Detections(detections))
    ELSE IF BelowThresh(self, output.scores[i])
    THEN DetectorLoop(self, output, width, height, i + 1, detections)
    ELSE LET bounding_box == BoundingBox(output.boxes[i], width, height)
             name == PyIndex(self.class_labels, output.labels[i])
         IN  IF IsExc(name) THEN name
             ELSE DetectorLoop(self, output, width, height, i + 1,
                      Append(detections,
                          Detection(name.ret, bounding_box, output.scores[i])))

DetectorParse(self, output, frame_size) ==
    DetectorLoop(self, output, frame_size[1], frame_size[2], 1, <<>>)

\* [f(o, frame_size) for o in output]: the first exception ends the call
RECURSIVE ListCompDetector(_, _, _, _, _)
ListCompDetector(self, output, frame_size, i, acc) ==
    IF i > Len(output) THEN Return(PyList(acc))
    ELSE LET r == DetectorParse(self, output[i], frame_size)
         IN  IF IsExc(r) THEN r
             ELSE ListCompDetector(self, output, frame_size, i + 1, Append(acc, r.ret))

DetectorCall(self, output, frame_size) ==
    ListCompDetector(self, output, frame_size, 1, <<>>)

\* the crop with the axes exchanged: [round(x1):round(x2), round(y1):round(y2)]
CropMaskSwapped(soft_mask, box) ==
    LET plane == soft_mask[1]
        rows == PySlice(plane, Round(box[1]), Round(box[3]))
    IN  [r \in 1..Len(rows) |-> PySlice(rows[r], Round(box[2]), Round(box[4]))]

\* np.squeeze(soft_mask, axis=0)[round(y1):round(y2), round(x1):round(x2)]
CropMask(soft_mask, box) ==
    LET plane == soft_mask[1]
        rows == PySlice(plane, Round(box[2]), Round(box[4]))
    IN  [r \in 1..Len(rows) |-> PySlice(rows[r], Round(box[1]), Round(box[3]))]

\* soft_mask > self.mask_thresh, elementwise
Binarize(soft_mask, mask_thresh) ==
    [r \in 1..Len(soft_mask) |->
        [c \in 1..Len(soft_mask[r]) |-> RLess(mask_thresh, soft_mask[r][c])]]

\* the loop of InstanceSegmenterOutputProcessor._parse_detections
RECURSIVE InstanceSegmenterLoop(_, _, _, _, _, _)
InstanceSegmenterLoop(self, output, width, height, i, detections) ==
    IF i > Min(Zip3Len(output.boxes, output.labels, output.scores), Len(output.masks))
    THEN Return(Detections(detections))
    ELSE IF BelowThresh(self, output.scores[i])
    THEN InstanceSegmenterLoop(self, output, width, height, i + 1, detections)
    ELSE LET bounding_box == BoundingBox(output.boxes[i], width, height)
             mask == Binarize(CropMask(output.masks[i], output.boxes[i]),
                              self.mask_thresh)
             name == PyIndex(self.class_labels, output.labels[i])
         IN  IF IsExc(name) THEN name
             ELSE InstanceSegmenterLoop(self, output, width, height, i + 1,
                      Append(detections,
                          MaskedDetection(name.ret, bounding_box, mask,
                                          output.scores[i])))

InstanceSegmenterParse(self, output, frame_size) ==
    InstanceSegmenterLoop(self, output, frame_size[1], frame_size[2], 1, <<>>)

RECURSIVE ListCompInstanceSegmenter(_, _, _, _, _)
ListCompInstanceSegmenter(self, output, frame_size, i, acc) ==
    IF i > Len(output) THEN Return(PyList(acc))
    ELSE LET r == InstanceSegmenterParse(self, output[i], frame_size)
         IN  IF IsExc(r) THEN r
             ELSE ListCompInstanceSegmenter(self, output, frame_size, i + 1,
                                            Append(acc, r.ret))

InstanceSegmenterCall(self, output, frame_size) ==
    ListCompInstanceSegmenter(self, output, frame_size, 1, <<>>)

\* [(p[0] / width, p[1] / height) for p in kpts]
NormPoints(kpts, width, height) ==
    [p \in 1..Len(kpts) |->
        <<RDiv(kpts[p][1], RInt(width)), RDiv(kpts[p][2], RInt(height))>>]

\* the first len(e) points, whatever the vertices of e: [points[k] for k in range(len(e))]
RECURSIVE EdgePointsPrefix(_, _, _, _)
EdgePointsPrefix(points, e, i, acc) ==
    IF i > Len(e) THEN Return(acc)
    ELSE LET p == PyIndex(points, i - 1)
         IN  IF IsExc(p) THEN p
             ELSE EdgePointsPrefix(points, e, i + 1, Append(acc, p.ret))

\* [points[v] for v in e]
RECURSIVE EdgePoints(_, _, _, _)
EdgePoints(points, e, i, acc) ==
    IF i > Len(e) THEN Return(acc)
    ELSE LET p == PyIndex(points, e[i])
         IN  IF IsExc(p) THEN p ELSE EdgePoints(points, e, i + 1, Append(acc, p.ret))

\* [[points[v] for v in e] for e in self.edges]
RECURSIVE PolylinePoints(_, _, _, _)
PolylinePoints(points, edges, i, acc) ==
    IF i > Len(edges) THEN Return(acc)
    ELSE LET s == EdgePoints(points, edges[i], 1, <<>>)
         IN  IF IsExc(s) THEN s
             ELSE PolylinePoints(points, edges, i + 1, Append(acc, s.ret))

\* the dict built at the end of KeypointDetectorOutputProcessor._parse_detections
KeypointLabel(self, detections, keypoints, polylines) ==
    IF self.edges # None
    THEN [type |-> "dict", detections |-> Detections(detections),
          keypoints |-> Keypoints(keypoints), polylines |-> Polylines(polylines)]
    ELSE [type |-> "dict", detections |-> Detections(detections),
          keypoints |-> Keypoints(keypoints)]

\* the loop of KeypointDetectorOutputProcessor._parse_detections
RECURSIVE KeypointLoop(_, _, _, _, _, _, _, _)
KeypointLoop(self, output, width, height, i, detections, keypoints, polylines) ==
    IF i > Min(Zip3Len(output.boxes, output.labels, output.scores),
               Len(output.keypoints))
    THEN Return(KeypointLabel(self, detections, keypoints, polylines))
    ELSE IF BelowThresh(self, output.scores[i])
    THEN KeypointLoop(self, output, width, height, i + 1,
                      detections, keypoints, polylines)
    ELSE LET bounding_box == BoundingBox(output.boxes[i], width, height)
             points == NormPoints(output.keypoints[i], width, height)
             name == PyIndex(self.class_labels, output.labels[i])
             lines == IF self.edges # None
                      THEN PolylinePoints(points, self.edges[1], 1, <<>>)
                      ELSE Return(<<>>)
         IN  IF IsExc(name) THEN name
             ELSE IF IsExc(lines) THEN lines
             ELSE KeypointLoop(self, output, width, height, i + 1,
                      Append(detections,
                          Detection(name.ret, bounding_box, output.scores[i])),
                      Append(keypoints,
                          Keypoint(name.ret, points, output.scores[i])),
                      IF self.edges # None
                      THEN Append(polylines,
                               Polyline(lines.ret, output.scores[i], FALSE, FALSE))
                      ELSE polylines)

KeypointParse(self, output, frame_size) ==
    KeypointLoop(self, output, frame_size[1], frame_size[2], 1, <<>>, <<>>, <<>>)

\* ListCompKeypoint that parses the first image of the batch for every image
RECURSIVE ListCompKeypointFirst(_, _, _, _, _)
ListCompKeypointFirst(self, output, frame_size, i, acc) ==
    IF i > Len(output) THEN Return(PyList(acc))
    ELSE LET r == KeypointParse(self, output[1], frame_size)
         IN  IF IsExc(r) THEN r
             ELSE ListCompKeypointFirst(self, output, frame_size, i + 1,
                                        Append(acc, r.ret))

RECURSIVE ListCompKeypoint(_, _, _, _, _)
ListCompKeypoint(self, output, frame_size, i, acc) ==
    IF i > Len(output) THEN Return(PyList(acc))
    ELSE LET r == KeypointParse(self, output[i], frame_size)
         IN  IF IsExc(r) THEN r
             ELSE ListCompKeypoint(self, output, frame_size, i + 1, Append(acc, r.ret))

KeypointCall(self, output, frame_size) ==
    ListCompKeypoint(self, output, frame_size, 1, <<>>)

\* argmax of a row of rationals: the 0-based index of the first largest entry
RArgMax(row) ==
    (CHOOSE j \in 1..Len(row) :
        /\ \A k \in 1..Len(row) : RLeq(row[k], row[j])
        /\ \A k \in 1..(j - 1) : RLess(row[k], row[j])) - 1

\* probs.argmax(axis=1) for one image: per pixel, the first largest class
ArgMaxPlane(probs) ==
    [r \in 1..Len(probs[1]) |->
        [c \in 1..Len(probs[1][r]) |->
            RArgMax([m \in 1..Len(probs) |-> probs[m][r][c]])]]

SegmenterCall(self, output, frame_size) ==
    LET probs == output.out
        masks == [n \in 1..Len(probs) |-> ArgMaxPlane(probs[n])]
    IN  Return(PyList([n \in 1..Len(masks) |-> Segmentation(masks[n])]))

\* output_processor(output, frame_size), by the class of the processor
ProcessorCall(self, output, frame_size) ==
    CASE self.cls = "ClassifierOutputProcessor" ->
            ClassifierCall(self, output, frame_size)
      [] self.cls = "DetectorOutputProcessor" ->
            DetectorCall(self, output, frame_size)
      [] self.cls = "InstanceSegmenterOutputProcessor" ->
            InstanceSegmenterCall(self, output, frame_size)
      [] self.cls = "KeypointDetectorOutputProcessor" ->
            KeypointCall(self, output, frame_size)
      [] self.cls = "SegmenterOutputProcessor" ->
            SegmenterCall(self, output, frame_size)

----------------------------------------------------------------------------
(* The processors and the raw outputs they are called on *)

LabelLists == {<<"a">>, <<"a", "b">>}
Thresholds == {None, Some(Rat(1, 2))}
FrameSizes == {<<4, 2>>, <<1, 1>>}

BoxA == <<RInt(0), RInt(0), RInt(2), RInt(1)>>
BoxB == <<Rat(1, 2), RInt(0), Rat(5, 2), RInt(2)>>

KptsA == << <<RInt(1), RInt(1), RInt(1)>>, <<RInt(3), RInt(2), RInt(1)>> >>
KptsB == << <<RInt(0), RInt(1), RInt(0)>>, <<RInt(2), RInt(0), RInt(1)>> >>

\* one candidate of a detection model: a row of each of the parallel arrays
Cand(box, label, score, mask, kpts) ==
    [box |-> box, label |-> label, score |-> score, mask |-> mask, kpts |-> kpts]

\* a score above, at and below the threshold; a label in range, negative, too large
Candidates ==
    { Cand(BoxA, 0, Rat(9, 10), "flat", KptsA),
      Cand(BoxB, 1, Rat(1, 2), "mixed", KptsB),
      Cand(BoxA, 1, Rat(2, 5), "mixed", KptsA),
      Cand(BoxB, 0, Rat(2, 5), "flat", KptsB),
      Cand(BoxB, -1, Rat(9, 10), "flat", KptsA),
      Cand(BoxA, 2, Rat(2, 5), "mixed", KptsB),
      Cand(BoxA, -3, Rat(1, 2), "flat", KptsA) }

\* a soft mask FloatTensor[1, H, W] of the frame: 0.6 everywhere, or 0.6 / 0.4 mixed
SoftMask(frame_size, pattern) ==
    << [r \in 1..frame_size[2] |->
          [c \in 1..frame_size[1] |->
              IF pattern = "flat" \/ (r + c) % 2 = 0 THEN Rat(3, 5) ELSE Rat(2, 5)]] >>

\* the sequences of at most MaxK candidates
CandSeqs == UNION {[1..k -> Candidates] : k \in 0..MaxK}

\* the ways to deal k candidates, in order, to the n images of a batch
Deals(k) ==
    UNION {{[n |-> n, of |-> f] :
                f \in {g \in [1..k -> 1..n] : \A i \in 1..(k - 1) : g[i] <= g[i + 1]}} :
           n \in 0..MaxBatch}

\* the candidates dealt to image j
DealtTo(cs, deal, j) ==
    LET before == Cardinality({i \in 1..Len(cs) : deal.of[i] < j})
        mine == Cardinality({i \in 1..Len(cs) : deal.of[i] = j})
    IN  SubSeq(cs, before + 1, before + mine)

\* the dict of parallel arrays a detection model returns for one image
ImageOutput(cls, cs, frame_size) ==
    LET boxes == [i \in 1..Len(cs) |-> cs[i].box]
        labels == [i \in 1..Len(cs) |-> cs[i].label]
        scores == [i \in 1..Len(cs) |-> cs[i].score]
    IN  CASE cls = "DetectorOutputProcessor" ->
                [boxes |-> boxes, labels |-> labels, scores |-> scores]
          [] cls = "InstanceSegmenterOutputProcessor" ->
                [boxes |-> boxes, labels |-> labels, scores |-> scores,
                 masks |-> [i \in 1..Len(cs) |-> SoftMask(frame_size, cs[i].mask)]]
          [] cls = "KeypointDetectorOutputProcessor" ->
                [boxes |-> boxes, labels |-> labels, scores |-> scores,
                 keypoints |-> [i \in 1..Len(cs) |-> cs[i].kpts]]

\* the batches List[Dict[Tensor]] of a detection model
BatchOutputs(cls, frame_size) ==
    {[j \in 1..deal.n |-> ImageOutput(cls, DealtTo(cs, deal, j), frame_size)] :
        <<cs, deal>> \in {p \in CandSeqs \X UNION {Deals(k) : k \in 0..MaxK} :
                            DOMAIN p[2].of = DOMAIN p[1]}}

\* the logits matrices FloatTensor[N, M]
LogitsMatrices ==
    UNION {[1..n -> [1..m -> {0, 2}]] : n \in 1..MaxBatch, m \in 1..MaxClasses}
    \cup {<<>>}

\* the outputs {"out": FloatTensor[N, 2, 1, 2]} of a semantic segmentation model
SegmenterOutputs ==
    {[out |-> o] :
        o \in UNION {[1..n -> [1..2 -> [1..1 -> [1..2 -> {Rat(1, 5), Rat(4, 5)}]]]] :
                        n \in 0..MaxBatch}}

\* the raw outputs a processor of class cls may be called on
RawOutputs(cls, frame_size) ==
    CASE cls = "ClassifierOutputProcessor" -> LogitsMatrices
      [] cls = "SegmenterOutputProcessor" -> SegmenterOutputs
      [] OTHER -> BatchOutputs(cls, frame_size)

\* the processors, as their constructors build them
Processors ==
    {ClassifierInit(l, t) : l \in LabelLists, t \in Thresholds}
    \cup {DetectorInit(l, t) : l \in LabelLists, t \in Thresholds}
    \cup {InstanceSegmenterInit(l, t, m) :
            l \in LabelLists, t \in Thresholds, m \in {Rat(1, 2), Rat(7, 10)}}
    \cup {KeypointInit(l, e, t) :
            l \in LabelLists, t \in Thresholds,
            e \in {None, Some(<<>>), Some(<< <<0, 1>> >>),
                   Some(<< <<1, 0>>, <<-1>> >>), Some(<< <<0, 2>> >>)}}
    \cup {SegmenterInit(l) : l \in LabelLists}

----------------------------------------------------------------------------
(* The processors called on raw outputs *)

InitProc ==
    /\ processor \in Processors
    /\ \E fs \in FrameSizes :
          \E o \in RawOutputs(processor.cls, fs) :
              args = [output |-> o, frame_size |-> fs]
    /\ config = None
    /\ model = None
    /\ resizer = None
    /\ called = "none"
    /\ trace = <<>>
    /\ result = None
    /\ files = {}

Call(cls) ==
    /\ called = "none"
    /\ processor.cls = cls
    /\ called' = cls
    /\ result' = ProcessorCall(processor, args.output, args.frame_size)
    /\ UNCHANGED <<files, processor, config, model, resizer, args, trace>>

ClassifierOutputProcessorCall == Call("ClassifierOutputProcessor")
DetectorOutputProcessorCall == Call("DetectorOutputProcessor")
InstanceSegmenterOutputProcessorCall == Call("InstanceSegmenterOutputProcessor")
KeypointDetectorOutputProcessorCall == Call("KeypointDetectorOutputProcessor")
SegmenterOutputProcessorCall == Call("SegmenterOutputProcessor")

NextProc ==
    \/ ClassifierOutputProcessorCall
    \/ DetectorOutputProcessorCall
    \/ InstanceSegmenterOutputProcessorCall
    \/ KeypointDetectorOutputProcessorCall
    \/ SegmenterOutputProcessorCall

SpecProc == InitProc /\ [][NextProc]_vars

----------------------------------------------------------------------------
(* The detector, the instance segmenter and the keypoint processor on one input *)

\* the three processors with one configuration; one image of at most MaxK
\* candidates of label 0 with soft masks of one pattern, and the frame size; the
\* boxes are BoxA, a box inside every frame at least 3 wide, a whole frame 17 by
\* 2, a box whose x2 - x1 is no float32 and rounds up, a box inside every frame
\* whose x2 - x1 and y2 - y1 are halfway between two float32 (one rounds up, one
\* down), two boxes with negative corners and a box wider than 2^24
InitBox ==
    /\ processor \in
          {[DetectorOutputProcessor |-> DetectorInit(l, e[2]),
            InstanceSegmenterOutputProcessor |-> InstanceSegmenterInit(l, e[2], m),
            KeypointDetectorOutputProcessor |-> KeypointInit(l, e[1], e[2])] :
              l \in LabelLists, e \in {<<None, None>>, <<Some(<< <<0, 1>> >>), None>>},
              m \in {Rat(1, 2), Rat(7, 10)}}
    /\ args \in
          {[cands |-> [i \in 1..Len(bs) |-> Cand(bs[i], 0, Rat(9, 10), pattern, KptsA)],
            frame_size |-> fs] :
              pattern \in {"flat", "mixed"},
              bs \in UNION {[1..k -> {BoxA,
                                      <<RInt(1), Rat(1, 2), Rat(5, 2), RInt(1)>>,
                                      <<RInt(0), RInt(0), RInt(17), RInt(2)>>,
                                      <<Rat(9, 2^23), RInt(0), RInt(3), RInt(1)>>,
                                      <<Rat(1, 2^25), Rat(3, 2^25), RInt(1), RInt(1)>>,
                                      <<RInt(-2), RInt(0), RInt(-1), RInt(1)>>,
                                      <<RInt(-1), RInt(0), RInt(2), RInt(1)>>,
                                      <<RInt(-3), RInt(0), RInt(2^25), RInt(1)>>}] :
                            k \in 1..MaxK},
              fs \in {<<4, 2>>, <<1, 1>>, <<3, 1>>, <<17, 2>>}}
    /\ config = None
    /\ model = None
    /\ resizer = None
    /\ called = "none"
    /\ trace = <<>>
    /\ result = None
    /\ files = {}

\* each of the three processors called on the batch of the one image
ProcessorsCalled ==
    /\ called = "none"
    /\ called' = "processors"
    /\ result' = [cls \in DOMAIN processor |->
                     ProcessorCall(processor[cls],
                                   <<ImageOutput(cls, args.cands, args.frame_size)>>,
                                   args.frame_size)]
    /\ UNCHANGED <<files, processor, config, model, resizer, args, trace>>

SpecBox == InitBox /\ [][ProcessorsCalled]_vars

----------------------------------------------------------------------------
(* Images, and the MinResize transform *)

\* the pixels of an image: where they come from and the resampling done to them
Pixels(px) == [px |-> px, ops |-> <<>>]
Processed(data, op) == [px |-> data.px, ops |-> Append(data.ops, op)]

\* a PIL image; its size is (width, height)
PILImage(w, h, data) == [kind |-> "PIL", size |-> <<w, h>>, data |-> data]
\* a torch Tensor; the last two axes of its shape are (height, width)
Tensor(shape, data) == [kind |-> "Tensor", shape |-> shape, data |-> data]
\* a numpy image; its shape is (height, width, channels)
NdArray(shape, data) == [kind |-> "ndarray", shape |-> shape, data |-> data]

\* torchvision.transforms.functional.resize(img, size, **kwargs), size = (h, w)
FResize(img, size, kwargs) ==
    IF img.kind = "Tensor"
    THEN Tensor(SubSeq(img.shape, 1, Len(img.shape) - 2) \o size,
                Processed(img.data, <<"resize", size, kwargs>>))
    ELSE PILImage(size[2], size[1], Processed(img.data, <<"resize", size, kwargs>>))

\* a Python int, or a tuple / list, as an argument
PyInt(n) == [type |-> "int", v |-> n]
PyTuple(t) == [type |-> "tuple", v |-> t]

\* MinResize.__init__
MinResizeInit(min_output_size, interpolation) ==
    [min_output_size |->
        IF min_output_size.type = "int"
        THEN <<min_output_size.v, min_output_size.v>>
        ELSE min_output_size.v,
     interpolation |-> interpolation,
     _kwargs |-> IF interpolation # None
                 THEN {<<"interpolation", interpolation[1]>>} ELSE {}]

\* floor(log2(q)) of a positive rational q: the exponent of q as a float
RECURSIVE Log2Floor(_)
Log2Floor(q) ==
    IF RLeq(RInt(2), q) THEN Log2Floor(RDiv(q, RInt(2))) + 1
    ELSE IF RLess(q, RInt(1)) THEN Log2Floor(RMul(q, RInt(2))) - 1
    ELSE 0

\* 2^k mod b
RECURSIVE PowMod2(_, _)
PowMod2(k, b) == IF k = 0 THEN 1 % b ELSE (2 * PowMod2(k - 1, b)) % b

\* int(round(alpha * n)) as float64 computes it, for alpha the float64 nearest to
\* the quotient a / b of two integers and n an integer. The float product lies
\* within one unit in the last place of the exact x = (a / b) * n, so it rounds
\* as x does unless x is half an integer. Then the error of alpha decides: with
\* r = (a * 2^(52 - f)) mod b, f the exponent of a / b, alpha is below a / b by
\* r / (b * 2^(52 - f)) when 2r < b and above it by (b - r) / (b * 2^(52 - f))
\* otherwise; the product is the float x itself (which round() takes to the even
\* neighbour) when that error times n is at most half a unit in the last place
\* of x, 2^(e - 53) with e the exponent of x, and the float next to x on the side
\* of the error when it is more. TieRound has x, n, b, r and k = e - f - 1.
TieRound(x, n, b, r, k) ==
    IF RLeq(Rat(Min(r, b - r) * n, b), IF k >= 0 THEN RInt(2^k) ELSE Rat(1, 2^(-k)))
    THEN Round(x)
    ELSE IF 2 * r < b THEN Floor(x) ELSE Floor(x) + 1

\* round() of the float product whose exact value is x = alpha * n
RoundProduct(x, alpha, n) ==
    IF x[2] # 2 THEN Round(x)
    ELSE TieRound(x, n, alpha[2],
                  ((alpha[1] % alpha[2])
                      * PowMod2(52 - Log2Floor(alpha), alpha[2])) % alpha[2],
                  Log2Floor(x) - Log2Floor(alpha) - 1)

\* int(round(alpha * n))
IntRound(alpha, n) == RoundProduct(RMul(alpha, RInt(n)), alpha, n)

\* AlphaOf with min for max: the scale that fits the image under the minimum
AlphaMin(minh, minw, h, w) ==
    IF RLess(Rat(minh, h), Rat(minw, w)) THEN Rat(minh, h) ELSE Rat(minw, w)

\* alpha = max(minh / h, minw / w): the exact quotient whose nearest float64 is
\* alpha (the division rounds to nearest, so the larger quotient gives the max)
AlphaOf(minh, minw, h, w) == RMax(Rat(minh, h), Rat(minw, w))

\* MinResizeCall that reads a PIL image's size as (height, width)
MinResizeCallSwapped(self, img) ==
    IF img.kind = "ndarray" THEN Raise("TypeError")
    ELSE
    LET h == IF img.kind = "Tensor" THEN img.shape[Len(img.shape) - 1] ELSE img.size[1]
        w == IF img.kind = "Tensor" THEN img.shape[Len(img.shape)] ELSE img.size[2]
        minh == self.min_output_size[1]
        minw == self.min_output_size[2]
    IN  IF h >= minh /\ w >= minw THEN Return(img)
        ELSE LET alpha == AlphaOf(minh, minw, h, w)
                 size == <<IntRound(alpha, h), IntRound(alpha, w)>>
             IN  Return(FResize(img, size, self._kwargs))

\* MinResize.__call__; a numpy array has no (w, h) size to unpack
MinResizeCall(self, img) ==
    IF img.kind = "ndarray" THEN Raise("TypeError")
    ELSE
    LET h == IF img.kind = "Tensor" THEN img.shape[Len(img.shape) - 1] ELSE img.size[2]
        w == IF img.kind = "Tensor" THEN img.shape[Len(img.shape)] ELSE img.size[1]
        minh == self.min_output_size[1]
        minw == self.min_output_size[2]
    IN  IF h >= minh /\ w >= minw THEN Return(img)
        ELSE LET alpha == AlphaOf(minh, minw, h, w)
                 size == <<IntRound(alpha, h), IntRound(alpha, w)>>
             IN  Return(FResize(img, size, self._kwargs))

\* the MinResize objects, built with a single min_dim or a (min_height, min_width)
\* up to MaxMin, and two larger minimums
MinResizes ==
    {MinResizeInit(PyInt(n), i) : n \in 1..MaxMin, i \in {None, Some("NEAREST")}}
    \cup {MinResizeInit(PyTuple(<<a, b>>), i) :
            a \in 1..MaxMin, b \in 1..MaxMin, i \in {None, Some("NEAREST")}}
    \cup {MinResizeInit(PyInt(17), None), MinResizeInit(PyTuple(<<1, 25>>), None)}

\* the PIL images and CHW tensors of at most MaxDim x MaxDim pixels, and two
\* sizes that scale to half an integer of pixels
ResizeInputs ==
    {PILImage(w, h, Pixels(0)) : w \in 1..MaxDim, h \in 1..MaxDim}
    \cup {Tensor(<<3, h, w>>, Pixels(0)) : w \in 1..MaxDim, h \in 1..MaxDim}
    \cup {PILImage(14, 21, Pixels(0)), Tensor(<<3, 21, 14>>, Pixels(0)),
          PILImage(22, 11, Pixels(0)), PILImage(6, 15, Pixels(0))}

InitResize ==
    /\ resizer \in MinResizes
    /\ args \in {[img |-> i] : i \in ResizeInputs}
    /\ processor = None
    /\ config = None
    /\ model = None
    /\ called = "none"
    /\ trace = <<>>
    /\ result = None
    /\ files = {}

MinResizeCalled ==
    /\ called = "none"
    /\ called' = "MinResize"
    /\ result' = MinResizeCall(resizer, args.img)
    /\ UNCHANGED <<files, processor, config, model, resizer, args, trace>>

NextResize == MinResizeCalled

SpecResize == InitResize /\ [][NextResize]_vars

----------------------------------------------------------------------------
(* torchvision.transforms: the steps of the preprocessing pipeline *)

ToPILImage == [t |-> "ToPILImage"]
MinResizeStep(obj) == [t |-> "MinResize", obj |-> obj]
ResizeStep(size) == [t |-> "Resize", size |-> size]
ToTensor == [t |-> "ToTensor"]
NormalizeStep(mean, std) == [t |-> "Normalize", mean |-> mean, std |-> std]

\* torchvision.transforms.Resize(size)(img) on a PIL image: a (h, w) pair is the
\* output size, a single int is the length of the smaller edge
TorchResize(size, img) ==
    LET w == img.size[1]
        h == img.size[2]
        kwargs == {<<"interpolation", "BILINEAR">>}
    IN  IF size.type = "tuple" THEN FResize(img, size.v, kwargs)
        ELSE IF (w <= h /\ w = size.v) \/ (h <= w /\ h = size.v) THEN img
        ELSE IF w < h THEN FResize(img, <<(size.v * h) \div w, size.v>>, kwargs)
        ELSE FResize(img, <<size.v, (size.v * w) \div h>>, kwargs)

\* one step of the pipeline applied to an image
ApplyTransform(t, img) ==
    CASE t.t = "ToPILImage" ->
            IF img.kind = "Tensor"
            THEN Return(PILImage(img.shape[3], img.shape[2], img.data))
            ELSE IF img.kind = "ndarray"
            THEN Return(PILImage(img.shape[2], img.shape[1], img.data))
            ELSE Raise("TypeError")
      [] t.t = "MinResize" -> MinResizeCall(t.obj, img)
      [] t.t = "Resize" -> Return(TorchResize(t.size, img))
      [] t.t = "ToTensor" ->
            IF img.kind = "PIL"
            THEN Return(Tensor(<<3, img.size[2], img.size[1]>>, img.data))
            ELSE IF img.kind = "ndarray"
            THEN Return(Tensor(<<img.shape[3], img.shape[1], img.shape[2]>>, img.data))
            ELSE Raise("TypeError")
      [] t.t = "Normalize" ->
            IF img.kind = "Tensor"
            THEN Return(Tensor(img.shape,
                               Processed(img.data, <<"normalize", t.mean, t.std>>)))
            ELSE Raise("TypeError")

\* torchvision.transforms.Compose(transforms)(img), from step i on
RECURSIVE Compose(_, _, _)
Compose(transforms, i, img) ==
    IF i > Len(transforms) THEN Return(img)
    ELSE LET r == ApplyTransform(transforms[i], img)
         IN  IF IsExc(r) THEN r ELSE Compose(transforms, i + 1, r.ret)

\* torch.stack(tensors): the tensors must be of one shape, and at least one
Stack(tensors) ==
    IF tensors = <<>> THEN Raise("RuntimeError")
    ELSE IF \E i \in 1..Len(tensors) : tensors[i].shape # tensors[1].shape
    THEN Raise("RuntimeError")
    ELSE Return(Tensor(<<Len(tensors)>> \o tensors[1].shape,
                       [i \in 1..Len(tensors) |-> tensors[i].data]))

\* img.unsqueeze(0): a batch of the one image
Unsqueeze(img) == Tensor(<<1>> \o img.shape, <<img.data>>)

\* a Python list of images
ImageList(items) == [kind |-> "list", items |-> items]

----------------------------------------------------------------------------
(* TorchModel *)

\* the truth value of an optional number (None and 0 are false)
TruthyNum(opt) == opt # None /\ opt[1] # 0
\* the truth value of an optional list, or of an optional string held as its
\* sequence of characters (None and empty are false)
TruthySeq(opt) == opt # None /\ opt[1] # <<>>
\* the truth value of an optional string (None and "" are false)
TruthyStr(opt) == opt # None /\ opt[1] # ""

\* str.split(","), on a string held as its sequence of characters
RECURSIVE Split(_, _, _)
Split(chars, i, part) ==
    IF i > Len(chars) THEN <<part>>
    ELSE IF chars[i] = "," THEN <<part>> \o Split(chars, i + 1, <<>>)
    ELSE Split(chars, i + 1, Append(part, chars[i]))

\* fiftyone.core.utils.fill_patterns: a path without patterns is unchanged
FillPatterns(path) == path

\* eta.core.learning.load_labels_map: the labels map (index -> label) of the file
LoadLabelsMap(path) == [i \in 0..1 |-> IF i = 0 THEN <<"c">> ELSE <<"d">>]

\* eta.core.learning.get_class_labels: the labels of the map, by index
EtaGetClassLabels(labels_map) ==
    [i \in 1..Cardinality(DOMAIN labels_map) |-> labels_map[i - 1]]

\* _get_class_labels that reads the labels file whenever a path is given
GetClassLabelsPathFirst(cfg) ==
    IF TruthyStr(cfg.labels_path)
    THEN Return(EtaGetClassLabels(LoadLabelsMap(FillPatterns(cfg.labels_path[1]))))
    ELSE IF TruthySeq(cfg.labels_string)
    THEN Return(Split(cfg.labels_string[1], 1, <<>>))
    ELSE Raise("ValueError")

\* TorchModel._get_class_labels
GetClassLabels(cfg) ==
    IF TruthySeq(cfg.labels_string) THEN Return(Split(cfg.labels_string[1], 1, <<>>))
    ELSE IF ~TruthyStr(cfg.labels_path) THEN Raise("ValueError")
    ELSE Return(EtaGetClassLabels(LoadLabelsMap(FillPatterns(cfg.labels_path[1]))))

\* ResizeSteps that tests image_min_dim before image_min_size
ResizeStepsDimFirst(cfg) ==
    IF TruthyNum(cfg.image_min_dim)
    THEN <<MinResizeStep(MinResizeInit(PyInt(cfg.image_min_dim[1]), None))>>
    ELSE IF TruthySeq(cfg.image_min_size)
    THEN <<MinResizeStep(MinResizeInit(PyTuple(cfg.image_min_size[1]), None))>>
    ELSE IF TruthySeq(cfg.image_size)
    THEN <<ResizeStep(PyTuple(cfg.image_size[1]))>>
    ELSE IF TruthyNum(cfg.image_dim)
    THEN <<ResizeStep(PyInt(cfg.image_dim[1]))>>
    ELSE <<>>

\* the resize step of _build_transforms, if any
ResizeSteps(cfg) ==
    IF TruthySeq(cfg.image_min_size)
    THEN <<MinResizeStep(MinResizeInit(PyTuple(cfg.image_min_size[1]), None))>>
    ELSE IF TruthyNum(cfg.image_min_dim)
    THEN <<MinResizeStep(MinResizeInit(PyInt(cfg.image_min_dim[1]), None))>>
    ELSE IF TruthySeq(cfg.image_size)
    THEN <<ResizeStep(PyTuple(cfg.image_size[1]))>>
    ELSE IF TruthyNum(cfg.image_dim)
    THEN <<ResizeStep(PyInt(cfg.image_dim[1]))>>
    ELSE <<>>

\* _build_transforms that asks for a mean and a std only when both are given
BuildTransformsLenient(cfg) ==
    LET head == <<ToPILImage>> \o ResizeSteps(cfg) \o <<ToTensor>>
    IN  IF TruthySeq(cfg.image_mean) /\ TruthySeq(cfg.image_std)
        THEN Return(Append(head, NormalizeStep(cfg.image_mean[1], cfg.image_std[1])))
        ELSE Return(head)

\* TorchModel._build_transforms: the list handed to Compose
BuildTransforms(cfg) ==
    LET head == <<ToPILImage>> \o ResizeSteps(cfg) \o <<ToTensor>>
    IN  IF TruthySeq(cfg.image_mean) \/ TruthySeq(cfg.image_std)
        THEN IF ~TruthySeq(cfg.image_mean) \/ ~TruthySeq(cfg.image_std)
             THEN Raise("ValueError")
             ELSE Return(Append(head, NormalizeStep(cfg.image_mean[1], cfg.image_std[1])))
        ELSE Return(head)

\* the kind of raw output the network of an entrypoint returns, named by the
\* processor class that reads it, and which of the two sets of weights of the
\* kind a network holds: those of the state dict it loaded, or else those its
\* entrypoint gave it
NetKind(entrypoint) ==
    CASE entrypoint \in {"classifier1", "classifier2"} -> "ClassifierOutputProcessor"
      [] entrypoint \in {"detector1", "detector2"} -> "DetectorOutputProcessor"
      [] entrypoint \in {"maskrcnn1", "maskrcnn2"} -> "InstanceSegmenterOutputProcessor"
      [] entrypoint \in {"keypointrcnn1", "keypointrcnn2"} ->
            "KeypointDetectorOutputProcessor"
      [] entrypoint \in {"segmenter1"} -> "SegmenterOutputProcessor"

NetIsFirst(net) ==
    IF net.state_dict # None
    THEN net.state_dict[1] \in {"first.pth", "zoo/first.pth"}
    ELSE net.entrypoint \in
            {"classifier1", "detector1", "maskrcnn1", "keypointrcnn1", "segmenter1"}

\* config.download_model_if_necessary(), of HasZooModel: the config after the
\* call; with a model name and no path the zoo model is fetched and model_path
\* set to its file
DownloadModelIfNecessary(cfg) ==
    IF cfg.model_path = None /\ TruthyStr(cfg.model_name)
    THEN [cfg EXCEPT !.model_path = Some("zoo/first.pth")]
    ELSE cfg

\* the config object after _load_model has run on it: the call of
\* download_model_if_necessary is made when a model name or path is given
ConfigAfterLoad(cfg) ==
    IF TruthyStr(cfg.model_name) \/ TruthyStr(cfg.model_path)
    THEN DownloadModelIfNecessary(cfg) ELSE cfg

\* TorchModel._load_model: the network entrypoint(**kwargs), moved to the device;
\* when a model name or a model path is given, the state dict that torch.load
\* reads from config.model_path is loaded into it, and a path with no file raises;
\* then half precision when asked, and evaluation mode.
LoadModel(cfg, device, use_half_precision) ==
    LET kwargs == IF cfg.entrypoint_args # None THEN cfg.entrypoint_args[1] ELSE <<>>
        model_path == DownloadModelIfNecessary(cfg).model_path
    IN  IF TruthyStr(cfg.model_name) \/ TruthyStr(cfg.model_path)
        THEN IF model_path \in {Some("first.pth"), Some("second.pth"),
                                Some("zoo/first.pth")}
             THEN Return([entrypoint |-> cfg.entrypoint_fcn, kwargs |-> kwargs,
                          device |-> device, state_dict |-> model_path,
                          half |-> use_half_precision, training |-> FALSE])
             ELSE Raise("FileNotFoundError")
        ELSE Return([entrypoint |-> cfg.entrypoint_fcn, kwargs |-> kwargs,
                     device |-> device, state_dict |-> None,
                     half |-> use_half_precision, training |-> FALSE])

\* TorchModel._build_output_processor: output_processor_cls(class_labels, **kwargs);
\* a keyword the class does not take is a TypeError
BuildOutputProcessor(cfg, class_labels) ==
    LET cls == cfg.output_processor_cls
        kwargs == IF cfg.output_processor_args # None
                  THEN cfg.output_processor_args[1] ELSE <<>>
        keys == DOMAIN kwargs
        confidence_thresh == IF "confidence_thresh" \in keys
                             THEN kwargs.confidence_thresh ELSE None
        mask_thresh == IF "mask_thresh" \in keys THEN kwargs.mask_thresh ELSE Rat(1, 2)
        edges == IF "edges" \in keys THEN kwargs.edges ELSE None
    IN  CASE cls = "ClassifierOutputProcessor" ->
                IF keys \subseteq {"confidence_thresh"}
                THEN Return(ClassifierInit(class_labels, confidence_thresh))
                ELSE Raise("TypeError")
          [] cls = "DetectorOutputProcessor" ->
                IF keys \subseteq {"confidence_thresh"}
                THEN Return(DetectorInit(class_labels, confidence_thresh))
                ELSE Raise("TypeError")
          [] cls = "InstanceSegmenterOutputProcessor" ->
                IF keys \subseteq {"confidence_thresh", "mask_thresh"}
                THEN Return(InstanceSegmenterInit(class_labels, confidence_thresh,
                                                  mask_thresh))
                ELSE Raise("TypeError")
          [] cls = "KeypointDetectorOutputProcessor" ->
                IF keys \subseteq {"confidence_thresh", "edges"}
                THEN Return(KeypointInit(class_labels, edges, confidence_thresh))
                ELSE Raise("TypeError")
          [] cls = "SegmenterOutputProcessor" ->
                IF keys = {}
                THEN Return(SegmenterInit(class_labels))
                ELSE Raise("TypeError")

\* TorchModel.__init__: the object it builds, or the error it raises
TorchModelInit(cfg, cuda_available) ==
    LET class_labels == GetClassLabels(cfg)
        transforms == BuildTransforms(cfg)
        device == IF cuda_available THEN "cuda:0" ELSE "cpu"
        use_half_precision == (cfg.use_half_precision = Some(TRUE))
        loaded == LoadModel(cfg, device, use_half_precision)
    IN  IF IsExc(class_labels) THEN class_labels
        ELSE IF IsExc(transforms) THEN transforms
        ELSE IF IsExc(loaded) THEN loaded
        ELSE LET output_processor == BuildOutputProcessor(cfg, class_labels.ret)
             IN  IF IsExc(output_processor) THEN output_processor
                 ELSE Return([config |-> ConfigAfterLoad(cfg),
                              _class_labels |-> class_labels.ret,
                              _num_classes |-> Len(class_labels.ret),
                              _transforms |-> transforms.ret,
                              _use_gpu |-> cuda_available,
                              _device |-> device,
                              _use_half_precision |-> use_half_precision,
                              _model |-> loaded.ret,
                              _output_processor |-> output_processor.ret])

\* TorchModel.__init__: the methods it has called, in order, when it returns or
\* raises
InitCalls(cfg) ==
    IF IsExc(GetClassLabels(cfg)) THEN <<"_get_class_labels">>
    ELSE IF IsExc(BuildTransforms(cfg))
    THEN <<"_get_class_labels", "_build_transforms">>
    ELSE IF IsExc(LoadModel(cfg, "cpu", FALSE))
    THEN <<"_get_class_labels", "_build_transforms", "_load_model">>
    ELSE <<"_get_class_labels", "_build_transforms", "_load_model",
           "_build_output_processor">>

\* the weights of the networks: what each returns for an image, by its pixels
NetLogits(net, px) ==
    IF NetIsFirst(net)
    THEN (IF px = 0 THEN <<2, 0>> ELSE <<0, 0>>)
    ELSE (IF px = 0 THEN <<0, 0, 0>> ELSE <<0, 0, 2>>)

NetCandidates(net, px) ==
    IF NetIsFirst(net)
    THEN (IF px = 0
          THEN <<Cand(BoxA, 0, Rat(9, 10), "flat", KptsA)>>
          ELSE <<Cand(BoxB, 1, Rat(1, 2), "mixed", KptsB),
                 Cand(BoxA, 1, Rat(2, 5), "mixed", KptsA)>>)
    ELSE (IF px = 0
          THEN <<>>
          ELSE <<Cand(BoxB, -1, Rat(9, 10), "flat", KptsA),
                 Cand(BoxA, 2, Rat(2, 5), "mixed", KptsB)>>)

NetClassScores(net, px) ==
    IF (px = 0) = NetIsFirst(net) THEN <<Rat(1, 5), Rat(4, 5)>> ELSE <<Rat(4, 5), Rat(1, 5)>>

\* self._model(imgs): the raw output of the network for a batch tensor [N, C, H, W]
Forward(net, imgs) ==
    LET kind == NetKind(net.entrypoint)
        n == imgs.shape[1]
        height == imgs.shape[3]
        width == imgs.shape[4]
    IN  CASE kind = "ClassifierOutputProcessor" ->
                [i \in 1..n |-> NetLogits(net, imgs.data[i].px)]
          [] kind = "SegmenterOutputProcessor" ->
                [out |-> [i \in 1..n |->
                            [m \in 1..2 |->
                                [r \in 1..height |->
                                    [c \in 1..width |->
                                        NetClassScores(net,
                                                       imgs.data[i].px)[m]]]]]]
          [] OTHER ->
                [i \in 1..n |->
                    ImageOutput(kind, NetCandidates(net, imgs.data[i].px),
                                <<width, height>>)]

\* [self._transforms(img) for img in imgs], from image i on
RECURSIVE TransformAll(_, _, _, _)
TransformAll(transforms, imgs, i, acc) ==
    IF i > Len(imgs) THEN Return(acc)
    ELSE LET r == Compose(transforms, 1, imgs[i])
         IN  IF IsExc(r) THEN r ELSE TransformAll(transforms, imgs, i + 1, Append(acc, r.ret))

\* the end of _preprocess_batch: frame_size = (height, width)
FrameSizeSwapped(imgs) ==
    LET height == imgs.shape[Len(imgs.shape) - 1]
        width == imgs.shape[Len(imgs.shape)]
    IN  <<height, width>>

\* the end of _preprocess_batch: height, width = list(imgs.size())[-2:]
FrameSize(imgs) ==
    LET height == imgs.shape[Len(imgs.shape) - 1]
        width == imgs.shape[Len(imgs.shape)]
    IN  <<width, height>>

\* the end of _preprocess_batch: the batch tensor and its frame size
WithFrameSize(st) ==
    IF IsExc(st) THEN st
    ELSE Return([imgs |-> st.ret, frame_size |-> FrameSize(st.ret)])

\* torch.stack over the transformed images, when every transform succeeded
StackAll(ts) == IF IsExc(ts) THEN ts ELSE WithFrameSize(Stack(ts.ret))

\* TorchModel._preprocess_batch
PreprocessBatch(self, imgs) ==
    IF imgs.kind # "Tensor"
    THEN StackAll(TransformAll(self._transforms, imgs.items, 1, <<>>))
    ELSE WithFrameSize(Return(imgs))

\* the end of predict_all: the output processor on the network's output; the trace
\* records what was handed to the network and to the output processor
PostProcess(self, batch, output) ==
    [result |-> ProcessorCall(self._output_processor, output, batch.frame_size),
     trace |-> <<[fed |-> [imgs |-> batch.imgs, cuda |-> self._use_gpu,
                           half |-> self._use_half_precision],
                  output |-> output,
                  frame_size |-> batch.frame_size]>>]

\* predict_all after preprocessing: the forward pass on the batch
ForwardPass(self, pre) ==
    IF IsExc(pre) THEN [result |-> pre, trace |-> <<>>]
    ELSE PostProcess(self, pre.ret, Forward(self._model, pre.ret.imgs))

\* TorchModel.predict_all: what it returns or raises, and what it handed to the
\* network and to the output processor on the way
PredictAll(self, imgs) == ForwardPass(self, PreprocessBatch(self, imgs))

\* predict_all(imgs)[0]
FirstOf(run) ==
    [result |-> IF IsExc(run.result) THEN run.result
                ELSE PyIndex(run.result.ret.items, 0),
     trace |-> run.trace]

\* TorchModel.predict
Predict(self, img) ==
    FirstOf(PredictAll(self, IF img.kind = "Tensor" THEN Unsqueeze(img)
                             ELSE ImageList(<<img>>)))

----------------------------------------------------------------------------
(* The configurations, and TorchModel built and called *)

\* TorchModelConfig.__init__: the fields parsed from the dict
Config(model_name, model_path, entrypoint_fcn, entrypoint_args, output_processor_cls, output_processor_args, labels_string, labels_path, use_half_precision, image_min_size, image_min_dim, image_size, image_dim, image_mean, image_std) ==
    [model_name |-> model_name,
     model_path |-> model_path,
     entrypoint_fcn |-> entrypoint_fcn,
     entrypoint_args |-> entrypoint_args,
     output_processor_cls |-> output_processor_cls,
     output_processor_args |-> output_processor_args,
     labels_string |-> labels_string,
     labels_path |-> labels_path,
     use_half_precision |-> use_half_precision,
     image_min_size |-> image_min_size,
     image_min_dim |-> image_min_dim,
     image_size |-> image_size,
     image_dim |-> image_dim,
     image_mean |-> image_mean,
     image_std |-> image_std]

Entrypoints ==
    {"classifier1", "classifier2", "detector1", "detector2", "maskrcnn1", "maskrcnn2",
     "keypointrcnn1", "keypointrcnn2", "segmenter1"}

\* output_processor_args that the processor class of a network takes
ProcessorArgs(cls) ==
    CASE cls = "KeypointDetectorOutputProcessor" ->
            {None, Some([confidence_thresh |-> Some(Rat(1, 2)),
                         edges |-> Some(<< <<0, 1>> >>)])}
      [] cls = "SegmenterOutputProcessor" -> {None}
      [] OTHER -> {None, Some([confidence_thresh |-> Some(Rat(1, 2))])}

\* every combination of the options, for a network and a processor that match
\* and no state dict; and the ways to name a state dict, one of them a path with
\* no file
BuildConfigs ==
    {Config(ld[1], ld[2], e, ld[3], NetKind(e), None, Some(<<"a", ",", "b">>), None,
            hp, None, None, None, None, None, None) :
        e \in Entrypoints, hp \in {None, Some(TRUE)},
        ld \in {<<None, Some("second.pth"), Some([pretrained |-> TRUE])>>,
                <<Some("first"), None, Some(<<>>)>>,
                <<Some("first"), Some("second.pth"), None>>,
                <<Some(""), Some(""), None>>,
                <<None, Some("missing.pth"), None>>}}
    \cup
    {Config(None, None, e, None, NetKind(e), a, ls, lp, hp, ims, imd, isz, idm, mean, std) :
        e \in Entrypoints, a \in {None, Some([confidence_thresh |-> Some(Rat(1, 2))])},
        ls \in {None, Some(<<>>), Some(<<"a", ",", "b">>), Some(<<"b", ",", ",", "a">>)},
        lp \in {None, Some("labels.txt")},
        hp \in {None, Some(TRUE)},
        ims \in {None, Some(<<2, 1>>)},
        imd \in {None, Some(0), Some(2)},
        isz \in {None, Some(<<1, 2>>)},
        idm \in {None, Some(0), Some(2)},
        mean \in {None, Some(<<>>), Some(<<Rat(1, 2), Rat(1, 2), Rat(1, 2)>>)},
        std \in {None, Some(<<>>), Some(<<Rat(1, 4), Rat(1, 4), Rat(1, 4)>>)}}

InitBuild ==
    /\ config \in BuildConfigs
    /\ model = None
    /\ processor = None
    /\ resizer = None
    /\ args = None
    /\ called = "none"
    /\ trace = <<>>
    /\ result = None
    /\ files = {}

\* TorchModel(config), where CUDA is or is not available; self.config is the
\* object handed in, so what _load_model does to it, once reached, is seen by the
\* caller whether or not construction succeeds
Construct ==
    /\ called = "none"
    /\ model = None
    /\ \E cuda_available \in BOOLEAN :
          LET r == TorchModelInit(config, cuda_available)
          IN  /\ model' = IF IsRet(r) THEN r.ret ELSE None
              /\ result' = IF IsRet(r) THEN Return(None) ELSE r
    /\ trace' = InitCalls(config)
    /\ config' = IF Len(InitCalls(config)) >= 3 THEN ConfigAfterLoad(config) ELSE config
    /\ called' = "__init__"
    /\ UNCHANGED <<files, processor, resizer, args>>

NextBuild == Construct

SpecBuild == InitBuild /\ [][NextBuild]_vars

\* the configurations of the models that are called: one sizing option at most,
\* mean and std both or neither, labels given inline; with the weights of the
\* entrypoint, or with a state dict and no other option
ModelConfigs ==
    UNION {{Config(None, None, e, None, NetKind(e), a, Some(<<"a", ",", "b">>), None, hp,
                   sz[1], sz[2], sz[3], sz[4], nm[1], nm[2]) :
                a \in ProcessorArgs(NetKind(e)), hp \in {None, Some(TRUE)},
                sz \in {<<None, None, None, None>>,
                        <<Some(<<2, 1>>), None, None, None>>,
                        <<None, Some(2), None, None>>,
                        <<None, None, Some(<<1, 2>>), None>>,
                        <<None, None, None, Some(2)>>},
                nm \in {<<None, None>>,
                        <<Some(<<Rat(1, 2), Rat(1, 2), Rat(1, 2)>>),
                          Some(<<Rat(1, 4), Rat(1, 4), Rat(1, 4)>>)>>}} :
           e \in Entrypoints}
    \cup
    {Config(ld[1], ld[2], e, ld[3], NetKind(e), None, Some(<<"a", ",", "b">>), None,
            None, None, None, None, None, None, None) :
        e \in Entrypoints,
        ld \in {<<None, Some("second.pth"), Some([pretrained |-> TRUE])>>,
                <<Some("first"), None, None>>}}

\* the models that TorchModel(config) builds
Models ==
    {r.ret : r \in {q \in {TorchModelInit(c, FALSE) : c \in ModelConfigs} : IsRet(q)}}

\* the sequences of at most MaxBatch pixel contents
PixelSeqs == UNION {[1..n -> {0, 1}] : n \in 0..MaxBatch}

\* an image of a representation
Image(kind, w, h, px) ==
    CASE kind = "PIL" -> PILImage(w, h, Pixels(px))
      [] kind = "ndarray" -> NdArray(<<h, w, 3>>, Pixels(px))
      [] kind = "Tensor" -> Tensor(<<3, h, w>>, Pixels(px))

\* the arguments of predict: an image; of predict_all: a list of images of one
\* representation and size, or a batch tensor [N, 3, H, W]
PredictArgs ==
    {[op |-> "predict", img |-> Image(k, w, h, px)] :
        k \in {"PIL", "ndarray", "Tensor"}, w \in 1..MaxImgDim, h \in 1..MaxImgDim, px \in {0, 1}}
    \cup
    {[op |-> "predict_all",
      imgs |-> ImageList([i \in 1..Len(pxs) |-> Image(k, w, h, pxs[i])])] :
        k \in {"PIL", "ndarray", "Tensor"}, w \in 1..MaxImgDim, h \in 1..MaxImgDim, pxs \in PixelSeqs}
    \cup
    {[op |-> "predict_all",
      imgs |-> Tensor(<<Len(pxs), 3, h, w>>, [i \in 1..Len(pxs) |-> Pixels(pxs[i])])] :
        w \in 1..MaxImgDim, h \in 1..MaxImgDim, pxs \in PixelSeqs}

InitModel ==
    /\ model \in Models
    /\ config = model.config
    /\ args \in PredictArgs
    /\ processor = None
    /\ resizer = None
    /\ called = "none"
    /\ trace = <<>>
    /\ result = None
    /\ files = {}

PredictCalled ==
    /\ called = "none"
    /\ args.op = "predict"
    /\ called' = "predict"
    /\ LET run == Predict(model, args.img)
       IN  result' = run.result /\ trace' = run.trace
    /\ UNCHANGED <<files, processor, config, model, resizer, args>>

PredictAllCalled ==
    /\ called = "none"
    /\ args.op = "predict_all"
    /\ called' = "predict_all"
    /\ LET run == PredictAll(model, args.imgs)
       IN  result' = run.result /\ trace' = run.trace
    /\ UNCHANGED <<files, processor, config, model, resizer, args>>

NextModel == PredictCalled \/ PredictAllCalled

SpecModel == InitModel /\ [][NextModel]_vars

----------------------------------------------------------------------------
(* The dataset adapters and the image files they open *)

\* PIL.Image.open(path): a file that is not an image is closed again and the error
\* raised; otherwise the image comes back unread, holding its file open
ImageOpen(path) ==
    IF path = "notes.txt" THEN Raise("UnidentifiedImageError")
    ELSE Return([kind |-> "PIL", path |-> path, fp |-> "open"])

\* img.load(), with which convert(), numpy.array() and ToTensor begin: the pixels
\* are read and the file closed; reading a truncated file raises, the file still
\* open; an image already read has no file
ImageLoad(img) ==
    IF img.fp = "closed" THEN Return(img)
    ELSE IF img.path = "truncated.png" THEN Raise("OSError")
    ELSE Return([img EXCEPT !.fp = "closed"])

\* TorchImageDataset.__getitem__: what it returns or raises, and the state of the
\* file it opened ("none" when it opened no file); ToTensor reads the image and
\* returns a tensor of its pixels
TorchImageDatasetGetItem(self, idx) ==
    LET path == PyIndex(self.image_paths, idx)
        opened == ImageOpen(path.ret)
        converted == IF self.force_rgb THEN ImageLoad(opened.ret) ELSE opened
        transformed ==
            CASE self.transform = None -> converted
              [] self.transform = Some("ToTensor") ->
                    LET loaded == ImageLoad(converted.ret)
                    IN  IF IsExc(loaded) THEN loaded
                        ELSE Return([loaded.ret EXCEPT !.kind = "Tensor"])
              [] self.transform = Some("ToPILImage") -> Raise("TypeError")
    IN  IF IsExc(path) THEN [out |-> path, fp |-> "none"]
        ELSE IF IsExc(opened) THEN [out |-> opened, fp |-> "closed"]
        ELSE IF IsExc(converted) THEN [out |-> converted, fp |-> opened.ret.fp]
        ELSE IF IsExc(transformed) THEN [out |-> transformed, fp |-> converted.ret.fp]
        ELSE [out |-> IF self.sample_ids # None
                      THEN Return(<<transformed.ret, self.sample_ids[1][idx + 1]>>)
                      ELSE Return(transformed.ret),
              fp |-> transformed.ret.fp]

\* TorchImageClassificationDataset.__getitem__
TorchImageClassificationDatasetGetItem(self, idx) ==
    LET path == PyIndex(self.image_paths, idx)
        opened == ImageOpen(path.ret)
        target == PyIndex(self.targets, idx)
        converted == IF self.force_rgb THEN ImageLoad(opened.ret) ELSE opened
        transformed ==
            CASE self.transform = None -> converted
              [] self.transform = Some("ToTensor") ->
                    LET loaded == ImageLoad(converted.ret)
                    IN  IF IsExc(loaded) THEN loaded
                        ELSE Return([loaded.ret EXCEPT !.kind = "Tensor"])
              [] self.transform = Some("ToPILImage") -> Raise("TypeError")
    IN  IF IsExc(path) THEN [out |-> path, fp |-> "none"]
        ELSE IF IsExc(opened) THEN [out |-> opened, fp |-> "closed"]
        ELSE IF IsExc(target) THEN [out |-> target, fp |-> opened.ret.fp]
        ELSE IF IsExc(converted) THEN [out |-> converted, fp |-> opened.ret.fp]
        ELSE IF IsExc(transformed) THEN [out |-> transformed, fp |-> converted.ret.fp]
        ELSE [out |-> IF self.sample_ids # None
                      THEN Return(<<transformed.ret, target.ret,
                                    self.sample_ids[1][idx + 1]>>)
                      ELSE Return(<<transformed.ret, target.ret>>),
              fp |-> transformed.ret.fp]

\* TorchImagePatchesDataset.__getitem__; detections[idx] is the number of
\* detections of the image, and the patch of the first is extracted first
TorchImagePatchesDatasetGetItem(self, idx) ==
    LET path == PyIndex(self.image_paths, idx)
        opened == ImageOpen(path.ret)
        converted == IF self.force_rgb THEN ImageLoad(opened.ret) ELSE opened
        detections == PyIndex(self.detections, idx)
        array == ImageLoad(converted.ret)
        patch == CASE self.transform = Some("ToTensor") -> Return("Tensor")
                   [] self.transform = Some("ToPILImage") -> Raise("TypeError")
    IN  IF IsExc(path) THEN [out |-> path, fp |-> "none"]
        ELSE IF IsExc(opened) THEN [out |-> opened, fp |-> "closed"]
        ELSE IF IsExc(converted) THEN [out |-> converted, fp |-> opened.ret.fp]
        ELSE IF IsExc(detections) THEN [out |-> detections, fp |-> converted.ret.fp]
        ELSE IF detections.ret = 0
        THEN [out |-> Raise("ValueError"), fp |-> converted.ret.fp]
        ELSE IF IsExc(array) THEN [out |-> array, fp |-> converted.ret.fp]
        ELSE IF IsExc(patch) THEN [out |-> patch, fp |-> array.ret.fp]
        ELSE [out |-> IF self.sample_ids # None
                      THEN Return(<<[i \in 1..detections.ret |-> patch.ret],
                                    self.sample_ids[1][idx + 1]>>)
                      ELSE Return([i \in 1..detections.ret |-> patch.ret]),
              fp |-> array.ret.fp]

\* a dataset over an image, a truncated image and a file that is no image
InitData ==
    /\ model \in
          {[cls |-> "TorchImageDataset",
            image_paths |-> <<"cat.png", "truncated.png", "notes.txt">>,
            sample_ids |-> ids, transform |-> t, force_rgb |-> rgb] :
              ids \in {None, Some(<<"s1", "s2", "s3">>)},
              t \in {None, Some("ToTensor"), Some("ToPILImage")}, rgb \in BOOLEAN}
          \cup
          {[cls |-> "TorchImageClassificationDataset",
            image_paths |-> <<"cat.png", "truncated.png", "notes.txt">>,
            targets |-> <<0, 1, 0>>,
            sample_ids |-> ids, transform |-> t, force_rgb |-> rgb] :
              ids \in {None, Some(<<"s1", "s2", "s3">>)},
              t \in {None, Some("ToTensor"), Some("ToPILImage")}, rgb \in BOOLEAN}
          \cup
          {[cls |-> "TorchImagePatchesDataset",
            image_paths |-> <<"cat.png", "truncated.png", "notes.txt">>,
            detections |-> d,
            sample_ids |-> ids, transform |-> t, force_rgb |-> rgb,
            force_square |-> FALSE] :
              d \in {<<2, 1, 1>>, <<0, 0, 0>>},
              ids \in {None, Some(<<"s1", "s2", "s3">>)},
              t \in {Some("ToTensor"), Some("ToPILImage")}, rgb \in BOOLEAN}
    /\ config = None
    /\ processor = None
    /\ resizer = None
    /\ args = None
    /\ called = "none"
    /\ trace = <<>>
    /\ result = None
    /\ files = {}

\* dataset[idx]: a file left open is referred to by the returned image, or by the
\* frame of the raise through the traceback of the exception
GetItemCalled ==
    /\ Len(trace) < MaxCalls
    /\ \E idx \in 0..Len(model.image_paths) :
          LET r == CASE model.cls = "TorchImageDataset" ->
                            TorchImageDatasetGetItem(model, idx)
                     [] model.cls = "TorchImageClassificationDataset" ->
                            TorchImageClassificationDatasetGetItem(model, idx)
                     [] model.cls = "TorchImagePatchesDataset" ->
                            TorchImagePatchesDatasetGetItem(model, idx)
          IN  /\ args' = [idx |-> idx]
              /\ result' = r.out
              /\ trace' = Append(trace, idx)
              /\ files' = IF r.fp = "open"
                          THEN files \cup
                                 {[call |-> Len(trace) + 1,
                                   path |-> model.image_paths[idx + 1],
                                   ref |-> IF IsRet(r.out) THEN "item"
                                           ELSE "traceback"]}
                          ELSE files
    /\ called' = "__getitem__"
    /\ UNCHANGED <<processor, config, model, resizer>>

\* the caller lets go of an item or an exception; the file it referred to is
\* closed when the object is finalized
Released ==
    /\ \E f \in files :
          /\ files' = files \ {f}
          /\ result' = IF f.call = Len(trace) THEN None ELSE result
    /\ called' = "released"
    /\ UNCHANGED <<processor, config, model, resizer, args, trace>>

SpecData == InitData /\ [][GetItemCalled \/ Released]_vars

----------------------------------------------------------------------------
(* Claims about the output processors, checked under SpecProc *)

ThresholdedProcessors ==
    {"ClassifierOutputProcessor", "DetectorOutputProcessor",
     "InstanceSegmenterOutputProcessor", "KeypointDetectorOutputProcessor"}

\* "not below the threshold": no threshold is configured, or score >= threshold
NotBelow(score) ==
    \/ processor.confidence_thresh = None
    \/ RLeq(processor.confidence_thresh[1], score)

\* the scores of image j that are not below the threshold, in input order
KeptScores(j) == SelectSeq(args.output[j].scores, NotBelow)

\* the input positions of image j whose score is not below the threshold
KeptIdx(j) == {i \in 1..Len(args.output[j].scores) : NotBelow(args.output[j].scores[i])}

\* the r-th smallest member of a set of integers
Nth(S, r) == CHOOSE i \in S : Cardinality({k \in S : k < i}) = r - 1

Confidences(labels) == [i \in 1..Len(labels) |-> labels[i].confidence]

\* the softmax probability of the largest logit of a row
RowProb(row) ==
    LET top == CHOOSE v \in {row[k] : k \in 1..Len(row)} : \A k \in 1..Len(row) : row[k] <= v
    IN  Rat(Exp(top), SumSeq([k \in 1..Len(row) |-> Exp(row[k])]))

\* the first position (1-based) of the largest logit of a row
RowArgmax(row) ==
    CHOOSE j \in 1..Len(row) :
        /\ \A k \in 1..Len(row) : row[k] <= row[j]
        /\ \A k \in 1..(j - 1) : row[k] # row[j]

\* the sequences of confidences that image j's part of the result carries
EmittedConfidences(j) ==
    LET r == result.ret.items[j]
    IN  CASE called = "KeypointDetectorOutputProcessor" ->
                {Confidences(r.detections.detections), Confidences(r.keypoints.keypoints)}
                \cup (IF "polylines" \in DOMAIN r
                      THEN {Confidences(r.polylines.polylines)} ELSE {})
          [] OTHER -> {Confidences(r.detections)}

\* C1: for the classifier, detector, instance-segmenter and keypoint processors,
\* with confidence_thresh configured no emitted label has a confidence below it
\* and a candidate whose score equals it is kept; with no threshold configured
\* every candidate is emitted.  (The confidences emitted are exactly the scores
\* that are not below the threshold.)
C1_ThresholdFilter ==
    (called \in ThresholdedProcessors /\ IsRet(result)) =>
        IF called = "ClassifierOutputProcessor"
        THEN \A i \in 1..Len(args.output) :
                LET e == result.ret.items[i]
                IN  /\ e.type = "Classification" => NotBelow(e.confidence)
                    /\ NotBelow(RowProb(args.output[i])) => e.type = "Classification"
        ELSE \A j \in 1..Len(args.output) :
                \A cs \in EmittedConfidences(j) :
                    /\ \A i \in 1..Len(cs) : NotBelow(cs[i])
                    /\ cs = KeptScores(j)

\* C1 witness: a detector with a threshold returned for an image with one score
\* at the threshold, emitted, and one score below it, dropped
C1_Witness ==
    /\ called = "DetectorOutputProcessor"
    /\ processor.confidence_thresh # None
    /\ IsRet(result)
    /\ \E j \in 1..Len(args.output) :
          LET sc == args.output[j].scores
          IN  /\ \E i \in 1..Len(sc) : sc[i] = processor.confidence_thresh[1]
              /\ \E i \in 1..Len(sc) : RLess(sc[i], processor.confidence_thresh[1])
              /\ Len(result.ret.items[j].detections) = 1
              /\ result.ret.items[j].detections[1].confidence
                    = processor.confidence_thresh[1]

\* what the classifier is to return for one row of logits
ExpectedEntry(row) ==
    IF processor.confidence_thresh # None
       /\ RLess(RowProb(row), processor.confidence_thresh[1])
    THEN NoLabel
    ELSE Classification(processor.class_labels[RowArgmax(row)], RowProb(row))

\* C2: the classifier called on an [N, M] logits matrix returns a list of exactly
\* N entries, entry i from row i only: null iff a threshold is set and the softmax
\* probability of the row's argmax class is below it, otherwise a classification
\* with label class_labels[argmax] and that probability as confidence.  (With
\* M <= len(class_labels) the call returns.)
C2_ClassifierRows ==
    called = "ClassifierOutputProcessor" =>
        /\ (\A i \in 1..Len(args.output) :
                Len(args.output[i]) <= Len(processor.class_labels)) => IsRet(result)
        /\ IsRet(result) =>
              /\ result.ret.type = "list"
              /\ Len(result.ret.items) = Len(args.output)
              /\ \A i \in 1..Len(args.output) :
                    result.ret.items[i] = ExpectedEntry(args.output[i])

\* C2 witness: a classifier with a threshold returned for two rows, the first
\* below the threshold (null) and the second not (a classification)
C2_Witness ==
    /\ called = "ClassifierOutputProcessor"
    /\ processor.confidence_thresh # None
    /\ IsRet(result)
    /\ Len(args.output) = 2
    /\ result.ret.items[1] = NoLabel
    /\ result.ret.items[2].type = "Classification"

\* C3: for every image the detector emits exactly the candidates whose score is
\* not below the threshold, in input order (none reordered, merged, duplicated or
\* dropped otherwise), one Detections per image of the batch in batch order.
\* (When every such candidate's label is in 0..len(class_labels)-1 the call returns.)
C3_DetectorExactFilter ==
    called = "DetectorOutputProcessor" =>
        LET width == args.frame_size[1]
            height == args.frame_size[2]
            InRange(j) == \A i \in KeptIdx(j) :
                              /\ 0 <= args.output[j].labels[i]
                              /\ args.output[j].labels[i] < Len(processor.class_labels)
        IN  /\ (\A j \in 1..Len(args.output) : InRange(j)) => IsRet(result)
            /\ IsRet(result) =>
                  /\ result.ret.type = "list"
                  /\ Len(result.ret.items) = Len(args.output)
                  /\ \A j \in 1..Len(args.output) :
                        LET o == args.output[j]
                            d == result.ret.items[j]
                        IN  /\ d.type = "Detections"
                            /\ Len(d.detections) = Cardinality(KeptIdx(j))
                            /\ \A r \in 1..Len(d.detections) :
                                  LET i == Nth(KeptIdx(j), r)
                                      b == d.detections[r].bounding_box
                                  IN  /\ d.detections[r].confidence = o.scores[i]
                                      /\ d.detections[r].label
                                            = PyIndex(processor.class_labels, o.labels[i]).ret
                                      /\ RMul(b[1], RInt(width)) = o.boxes[i][1]
                                      /\ RMul(b[2], RInt(height)) = o.boxes[i][2]
                                      /\ RMul(b[3], RInt(width))
                                            = RSub(o.boxes[i][3], o.boxes[i][1])
                                      /\ RMul(b[4], RInt(height))
                                            = RSub(o.boxes[i][4], o.boxes[i][2])

\* C3 witness: a detector returned for a batch of two images, the first with two
\* different candidates both emitted
C3_Witness ==
    /\ called = "DetectorOutputProcessor"
    /\ IsRet(result)
    /\ Len(args.output) = 2
    /\ Len(args.output[1].scores) = 2
    /\ Len(result.ret.items[1].detections) = 2
    /\ result.ret.items[1].detections[1] # result.ret.items[1].detections[2]
    /\ result.ret.items[2].detections = <<>>

\* the predicted class indices of the candidates of the batch that are kept
KeptLabels ==
    IF called = "ClassifierOutputProcessor"
    THEN {RowArgmax(args.output[i]) - 1 :
            i \in {k \in 1..Len(args.output) : NotBelow(RowProb(args.output[k]))}}
    ELSE UNION {{args.output[j].labels[i] : i \in KeptIdx(j)} :
                  j \in 1..Len(args.output)}

\* C4 (as claimed): in every output processor a predicted class index outside
\* 0..len(class_labels)-1, negative ones included, of a kept candidate makes the
\* call fail with an error.
C4_OutOfRangeFails ==
    (/\ called \in ThresholdedProcessors
     /\ \E l \in KeptLabels : l < 0 \/ l >= Len(processor.class_labels))
        => IsExc(result)

\* C5 (as claimed): the keypoint processor called on a batch of several images
\* returns a single mapping whose detections and keypoints hold the kept
\* candidates of all images of the batch.
C5_SingleMapping ==
    (/\ called = "KeypointDetectorOutputProcessor"
     /\ IsRet(result)
     /\ Len(args.output) >= 2)
        => /\ result.ret.type = "dict"
           /\ Len(result.ret.detections.detections)
                 = SumSeq([j \in 1..Len(args.output) |-> Cardinality(KeptIdx(j))])
           /\ Len(result.ret.keypoints.keypoints)
                 = SumSeq([j \in 1..Len(args.output) |-> Cardinality(KeptIdx(j))])

\* C5 (amended): the keypoint processor called on a batch returns a list with one
\* mapping per image, in batch order; the mapping of image j has the keys
\* detections, keypoints and (iff edges are configured) polylines, each holding
\* the kept candidates of image j alone, in input order.
C5_MappingPerImage ==
    (called = "KeypointDetectorOutputProcessor" /\ IsRet(result)) =>
        /\ result.ret.type = "list"
        /\ Len(result.ret.items) = Len(args.output)
        /\ \A j \in 1..Len(args.output) :
              LET m == result.ret.items[j]
              IN  /\ m.type = "dict"
                  /\ DOMAIN m = {"type", "detections", "keypoints"}
                        \cup (IF processor.edges # None THEN {"polylines"} ELSE {})
                  /\ Confidences(m.detections.detections) = KeptScores(j)
                  /\ Confidences(m.keypoints.keypoints) = KeptScores(j)
                  /\ processor.edges # None =>
                        Confidences(m.polylines.polylines) = KeptScores(j)
                  /\ \A r \in 1..Len(m.keypoints.keypoints) :
                        LET i == Nth(KeptIdx(j), r)
                        IN  /\ m.keypoints.keypoints[r].points
                                  = NormPoints(args.output[j].keypoints[i],
                                               args.frame_size[1], args.frame_size[2])
                            /\ m.detections.detections[r].bounding_box
                                  = BoundingBox(args.output[j].boxes[i],
                                                args.frame_size[1], args.frame_size[2])

\* C5 witness: a keypoint processor with edges returned for a batch of two images
\* with one kept candidate each, the two candidates different
C5_Witness ==
    /\ called = "KeypointDetectorOutputProcessor"
    /\ processor.edges # None
    /\ IsRet(result)
    /\ Len(args.output) = 2
    /\ Len(result.ret.items[1].keypoints.keypoints) = 1
    /\ Len(result.ret.items[2].keypoints.keypoints) = 1
    /\ result.ret.items[1].keypoints.keypoints # result.ret.items[2].keypoints.keypoints

----------------------------------------------------------------------------
(* C16: the three lists of a keypoint result *)

\* the normalized keypoint of candidate i of image j that Python's index v names
NormalizedAt(j, i, v) ==
    LET kpts == args.output[j].keypoints[i]
        p == kpts[IF v >= 0 THEN v + 1 ELSE Len(kpts) + v + 1]
    IN  <<RDiv(p[1], RInt(args.frame_size[1])), RDiv(p[2], RInt(args.frame_size[2]))>>

\* the polyline line is open and unfilled and holds, edge by edge, the normalized
\* keypoints of candidate i of image j at the vertex indices of the edge, which
\* are indices of the candidate's keypoints
PolylineOf(line, j, i) ==
    /\ line.type = "Polyline"
    /\ ~line.closed
    /\ ~line.filled
    /\ Len(line.points) = Len(processor.edges[1])
    /\ \A k \in 1..Len(line.points) :
          LET e == processor.edges[1][k]
              n == Len(args.output[j].keypoints[i])
          IN  /\ \A p \in 1..Len(e) : -n <= e[p] /\ e[p] < n
              /\ line.points[k] = [p \in 1..Len(e) |-> NormalizedAt(j, i, e[p])]

\* C16: in every mapping the keypoint processor returns, detections and keypoints
\* have the same length, one each per kept candidate in input order with the
\* candidate's label and confidence; the key polylines is present iff an edge list
\* was configured, and then holds exactly one open, unfilled polyline per kept
\* candidate whose point sequences are, edge by edge, the candidate's normalized
\* keypoints (x / width, y / height) at the edge's vertex indices.
C16_KeypointLists ==
    (called = "KeypointDetectorOutputProcessor" /\ IsRet(result)) =>
        \A j \in 1..Len(result.ret.items) :
            LET m == result.ret.items[j]
                kept == Cardinality(KeptIdx(j))
            IN  /\ Len(m.detections.detections) = kept
                /\ Len(m.keypoints.keypoints) = kept
                /\ \A r \in 1..kept :
                      LET i == Nth(KeptIdx(j), r)
                          name == PyIndex(processor.class_labels, args.output[j].labels[i]).ret
                          d == m.detections.detections[r]
                          k == m.keypoints.keypoints[r]
                      IN  /\ d.label = name /\ k.label = name
                          /\ d.confidence = args.output[j].scores[i]
                          /\ k.confidence = args.output[j].scores[i]
                          /\ Len(k.points) = Len(args.output[j].keypoints[i])
                          /\ \A p \in 1..Len(k.points) :
                                k.points[p] = NormalizedAt(j, i, p - 1)
                /\ ("polylines" \in DOMAIN m) = (processor.edges # None)
                /\ processor.edges # None =>
                      /\ Len(m.polylines.polylines) = kept
                      /\ \A r \in 1..kept :
                            PolylineOf(m.polylines.polylines[r], j, Nth(KeptIdx(j), r))

\* C16 witness: a keypoint processor with the edges (1, 0) and (-1) returned for
\* an image of two candidates, the first dropped and the second kept, a polyline
\* of two point sequences
C16_Witness ==
    /\ called = "KeypointDetectorOutputProcessor"
    /\ processor.edges = Some(<< <<1, 0>>, <<-1>> >>)
    /\ IsRet(result)
    /\ Len(args.output) = 1
    /\ KeptIdx(1) = {2}
    /\ Len(result.ret.items[1].polylines.polylines) = 1
    /\ Len(result.ret.items[1].polylines.polylines[1].points) = 2

----------------------------------------------------------------------------
(* Claims about MinResize, checked under SpecResize *)

\* the height and the width of an image, by its representation
HeightOf(img) == IF img.kind = "PIL" THEN img.size[2] ELSE img.shape[Len(img.shape) - 1]
WidthOf(img) == IF img.kind = "PIL" THEN img.size[1] ELSE img.shape[Len(img.shape)]

MinHeight == resizer.min_output_size[1]
MinWidth == resizer.min_output_size[2]

\* C7: MinResize applied to an image whose height is at least min_height and
\* whose width is at least min_width returns that same image unchanged, with no
\* resampling, for the PIL and for the tensor representation.
C7_MinResizeIdentity ==
    (/\ called = "MinResize"
     /\ HeightOf(args.img) >= MinHeight
     /\ WidthOf(args.img) >= MinWidth)
        => /\ result = Return(args.img)
           /\ result.ret.data.ops = <<>>

\* C7 witness: MinResize returned a PIL image that is not square, its height at
\* least min_height and its width at least min_width, but its width below
\* min_height
C7_Witness ==
    /\ called = "MinResize"
    /\ args.img.kind = "PIL"
    /\ HeightOf(args.img) >= MinHeight
    /\ WidthOf(args.img) >= MinWidth
    /\ WidthOf(args.img) < MinHeight
    /\ IsRet(result)

\* n is an integer nearest to the rational a: |n - a| <= 1/2
Nearest(n, a) ==
    /\ RLeq(RSub(RInt(n), a), Rat(1, 2))
    /\ RLeq(RSub(a, RInt(n)), Rat(1, 2))

\* C8: MinResize applied to an image of positive height h and width w, one of them
\* below its minimum, resizes to (round(alpha * h), round(alpha * w)) with
\* alpha = max(min_height / h, min_width / w); the resulting height is at least
\* min_height and the resulting width at least min_width.
C8_MinResizeScales ==
    (/\ called = "MinResize"
     /\ \/ HeightOf(args.img) < MinHeight
        \/ WidthOf(args.img) < MinWidth)
        => LET h == HeightOf(args.img)
               w == WidthOf(args.img)
               a == IF MinHeight * w >= MinWidth * h
                    THEN Rat(MinHeight, h) ELSE Rat(MinWidth, w)
           IN  /\ IsRet(result)
               /\ result.ret.kind = args.img.kind
               /\ Nearest(HeightOf(result.ret), RMul(a, RInt(h)))
               /\ Nearest(WidthOf(result.ret), RMul(a, RInt(w)))
               /\ HeightOf(result.ret) >= MinHeight
               /\ WidthOf(result.ret) >= MinWidth
               /\ result.ret.data.px = args.img.data.px
               /\ Len(result.ret.data.ops) = 1

\* C8 witness: MinResize resized a tensor whose width was below min_width and whose
\* height was not below min_height, to a larger height that took rounding
C8_Witness ==
    /\ called = "MinResize"
    /\ args.img.kind = "Tensor"
    /\ HeightOf(args.img) >= MinHeight
    /\ WidthOf(args.img) < MinWidth
    /\ IsRet(result)
    /\ WidthOf(result.ret) = MinWidth
    /\ (MinWidth * HeightOf(args.img)) % WidthOf(args.img) # 0
    /\ HeightOf(result.ret) > HeightOf(args.img)

----------------------------------------------------------------------------
(* Claims about TorchModel called, checked under SpecModel *)

\* the batch of the single image img, as predict builds it
SingleBatch(img) ==
    IF img.kind = "Tensor"
    THEN [kind |-> "Tensor", shape |-> <<1>> \o img.shape, data |-> <<img.data>>]
    ELSE [kind |-> "list", items |-> <<img>>]

\* C6: for every configured output processor and every input image, predict(img)
\* returns the first element of predict_all applied to the single-element batch
\* of img (and fails as it fails); predict_all returns, unmodified, the output
\* processor's result for the raw output of the network and the (width, height)
\* of the preprocessed batch.
C6_PredictFromPredictAll ==
    /\ called = "predict" =>
          LET all == PredictAll(model, SingleBatch(args.img)).result
          IN  IF IsExc(all) THEN result = all
              ELSE result = Return(all.ret.items[1])
    /\ (called = "predict_all" /\ trace # <<>>) =>
          LET fed == trace[1].fed.imgs
          IN  /\ Len(fed.shape) = 4
              /\ args.imgs.kind = "Tensor" => fed = args.imgs
              /\ args.imgs.kind = "list" => fed.shape[1] = Len(args.imgs.items)
              /\ result = ProcessorCall(model._output_processor, trace[1].output,
                                        <<fed.shape[4], fed.shape[3]>>)
    /\ (called = "predict_all" /\ trace = <<>>) => IsExc(result)

\* C6 witness: predict on a numpy image returned the detections of a detector, one
\* at least, for a frame that is not square
C6_Witness ==
    /\ called = "predict"
    /\ args.img.kind = "ndarray"
    /\ IsRet(result)
    /\ model._output_processor.cls = "DetectorOutputProcessor"
    /\ Len(result.ret.detections) > 0
    /\ trace[1].fed.imgs.shape[3] # trace[1].fed.imgs.shape[4]

\* C9 (as claimed): with image_min_size = (W, H), a minimum (width, height), every
\* image that passes through the preprocessing pipeline comes out with width at
\* least W and height at least H.
C9_MinSizeIsWidthHeight ==
    (/\ called \in {"predict", "predict_all"}
     /\ config.image_min_size # None
     /\ trace # <<>>
     /\ called = "predict" => args.img.kind # "Tensor"
     /\ called = "predict_all" => args.imgs.kind = "list")
        => /\ trace[1].fed.imgs.shape[4] >= config.image_min_size[1][1]
           /\ trace[1].fed.imgs.shape[3] >= config.image_min_size[1][2]

----------------------------------------------------------------------------
(* Claims about TorchModel built, checked under SpecBuild *)

\* an option is set: given, and not 0 or empty (which Python takes as not given)
SetNum(opt) == opt # None /\ opt[1] > 0
SetSeq(opt) == opt # None /\ Len(opt[1]) > 0

\* the step of the first sizing option that is set, in the order image_min_size,
\* image_min_dim, image_size, image_dim
FirstSizingStep ==
    IF SetSeq(config.image_min_size)
    THEN <<[t |-> "MinResize",
            obj |-> [min_output_size |-> config.image_min_size[1],
                     interpolation |-> None, _kwargs |-> {}]]>>
    ELSE IF SetNum(config.image_min_dim)
    THEN <<[t |-> "MinResize",
            obj |-> [min_output_size |-> <<config.image_min_dim[1],
                                           config.image_min_dim[1]>>,
                     interpolation |-> None, _kwargs |-> {}]]>>
    ELSE IF SetSeq(config.image_size)
    THEN <<[t |-> "Resize", size |-> [type |-> "tuple", v |-> config.image_size[1]]]>>
    ELSE IF SetNum(config.image_dim)
    THEN <<[t |-> "Resize", size |-> [type |-> "int", v |-> config.image_dim[1]]]>>
    ELSE <<>>

\* C10: for every combination of the four sizing options the pipeline built is, in
\* this order, conversion to PIL image, at most one resize step, conversion to
\* tensor, at most one mean/std normalization step; the resize step is the one of
\* the first option set in the order image_min_size, image_min_dim, image_size,
\* image_dim (MinResize for the first two, Resize for the last two) and there is
\* none when none is set.
C10_PipelineOrder ==
    (called = "__init__" /\ IsRet(result)) =>
        LET tr == model._transforms
            n == Len(tr)
            resize == SelectSeq(tr, LAMBDA t : t.t \in {"MinResize", "Resize"})
            norm == SelectSeq(tr, LAMBDA t : t.t = "Normalize")
        IN  /\ tr[1] = [t |-> "ToPILImage"]
            /\ resize = FirstSizingStep
            /\ Len(resize) <= 1
            /\ tr[2 + Len(resize)] = [t |-> "ToTensor"]
            /\ Len(norm) <= 1
            /\ n = 2 + Len(resize) + Len(norm)
            /\ Len(norm) = 1 => tr[n].t = "Normalize"

\* C10 witness: a model was built from a configuration with image_min_size,
\* image_min_dim, image_size and image_dim all set, and mean and std
C10_Witness ==
    /\ called = "__init__"
    /\ IsRet(result)
    /\ SetSeq(config.image_min_size)
    /\ SetNum(config.image_min_dim)
    /\ SetSeq(config.image_size)
    /\ SetNum(config.image_dim)
    /\ Len(model._transforms) = 4

----------------------------------------------------------------------------
(* C11: image_mean and image_std, both or neither *)

\* a labels source is given, the state dict named (if any) can be loaded, and the
\* processor class takes the arguments given
LabelsGiven == SetSeq(config.labels_string) \/ TruthyStr(config.labels_path)
StateDictLoads == IsRet(LoadModel(config, "cpu", FALSE))
ProcessorArgsTaken ==
    config.output_processor_cls = "SegmenterOutputProcessor"
        => config.output_processor_args = None

\* C11: constructing a TorchModel with exactly one of image_mean and image_std
\* given (None and an empty list are not given) fails with a configuration error
\* (ValueError) and leaves no model object; when construction succeeds with both
\* given the pipeline ends with the Normalize step of that mean and std; with
\* neither given no step is a Normalize step, and construction succeeds whenever
\* a labels source is given, the state dict loads and the processor takes its
\* arguments.
C11_MeanStdBothOrNeither ==
    called = "__init__" =>
        LET mean == SetSeq(config.image_mean)
            std == SetSeq(config.image_std)
        IN  /\ (mean # std) => (result = Raise("ValueError") /\ model = None)
            /\ (mean /\ std /\ IsRet(result)) =>
                    model._transforms[Len(model._transforms)] =
                        [t |-> "Normalize", mean |-> config.image_mean[1],
                         std |-> config.image_std[1]]
            /\ (~mean /\ ~std) =>
                    /\ (LabelsGiven /\ StateDictLoads /\ ProcessorArgsTaken)
                          => IsRet(result)
                    /\ IsRet(result) =>
                          \A i \in 1..Len(model._transforms) :
                              model._transforms[i].t # "Normalize"

\* C11 witness: construction from a configuration with a labels source, a mean and
\* no std has failed with the configuration error
C11_Witness ==
    /\ called = "__init__"
    /\ LabelsGiven
    /\ SetSeq(config.image_mean)
    /\ config.image_std = None
    /\ result = Raise("ValueError")
    /\ model = None

----------------------------------------------------------------------------
(* C12: the class labels resolved at construction *)

\* the labels joined by commas, as a sequence of characters
RECURSIVE JoinComma(_)
JoinComma(parts) ==
    IF Len(parts) = 1 THEN parts[1]
    ELSE parts[1] \o <<",">> \o JoinComma(Tail(parts))

\* C12: when TorchModel is built, its class labels are, when labels_string is
\* given (not None, not empty), the comma-separated parts of labels_string in order
\* (no part holds a comma, and the parts joined by commas are the string);
\* otherwise, when labels_path is given, the labels of the labels map of that
\* file by index; when neither is given construction raises the configuration
\* error (ValueError) out of _get_class_labels, the first method called: no
\* transform was built, no model loaded and no object exists.
C12_LabelsResolved ==
    called = "__init__" =>
        /\ (SetSeq(config.labels_string) /\ IsRet(result)) =>
              /\ Len(model._class_labels) >= 1
              /\ \A i \in 1..Len(model._class_labels) :
                    \A k \in 1..Len(model._class_labels[i]) :
                        model._class_labels[i][k] # ","
              /\ JoinComma(model._class_labels) = config.labels_string[1]
        /\ (~SetSeq(config.labels_string) /\ TruthyStr(config.labels_path)
                /\ IsRet(result)) =>
              LET labels_map == LoadLabelsMap(config.labels_path[1])
              IN  /\ Len(model._class_labels) = Cardinality(DOMAIN labels_map)
                  /\ \A i \in 1..Len(model._class_labels) :
                        model._class_labels[i] = labels_map[i - 1]
        /\ (~SetSeq(config.labels_string) /\ ~TruthyStr(config.labels_path)) =>
              /\ result = Raise("ValueError")
              /\ model = None
              /\ trace = <<"_get_class_labels">>
        /\ IsRet(result) => model._num_classes = Len(model._class_labels)

\* C12 witness: a model was built from a configuration with both a labels_string
\* with an empty part and a labels_path, and has the three parts of the string
C12_Witness ==
    /\ called = "__init__"
    /\ IsRet(result)
    /\ config.labels_string = Some(<<"b", ",", ",", "a">>)
    /\ TruthyStr(config.labels_path)
    /\ model._class_labels = << <<"b">>, <<>>, <<"a">> >>

----------------------------------------------------------------------------
(* C13: the normalized bounding box *)

\* the detections a processor emitted for the image
EmittedBy(cls) ==
    IF cls = "KeypointDetectorOutputProcessor"
    THEN result[cls].ret.items[1].detections.detections
    ELSE result[cls].ret.items[1].detections

\* a box with 0 <= x1 <= x2 <= width and 0 <= y1 <= y2 <= height
InsideFrame(box, width, height) ==
    /\ RLeq(RInt(0), box[1]) /\ RLeq(box[1], box[3]) /\ RLeq(box[3], RInt(width))
    /\ RLeq(RInt(0), box[2]) /\ RLeq(box[2], box[4]) /\ RLeq(box[4], RInt(height))

\* q * k for a fraction q and a positive integer k
Times(q, k) == <<q[1] * (k \div Gcd(k, q[2])), q[2] \div Gcd(k, q[2])>>

\* a and b over their least common denominator L: <<a * L, b * L, L>>
Common(a, b) ==
    LET L == (a[2] \div Gcd(a[2], b[2])) * b[2]
    IN  <<a[1] * (L \div a[2]), b[1] * (L \div b[2]), L>>

\* the difference a - b, exact
ExactDiff(a, b) == Rat(Common(a, b)[1] - Common(a, b)[2], Common(a, b)[3])

\* a + b <= 1; a + b < 1 + 2^-23
SumLeqOne(a, b) == Common(a, b)[1] + Common(a, b)[2] <= Common(a, b)[3]
SumNearOne(a, b) ==
    LET excess == Common(a, b)[1] + Common(a, b)[2] - Common(a, b)[3]
    IN  excess <= 0 \/ (excess < 2^7 /\ excess * 2^23 < Common(a, b)[3])

\* q is a float32: an integer of at most 24 bits times a power of two
RECURSIVE OddPart(_)
OddPart(n) == IF n = 0 \/ n % 2 = 1 THEN n ELSE OddPart(n \div 2)
IsFloat32(q) == IsPow2(q[2]) /\ OddPart(Abs(q[1])) < 2^24

\* d is e rounded to float32: a float32 at most 2^-24 * |e| away from e, and e
\* itself when e is a float32
RoundedToFloat32(d, e) ==
    LET off == Abs(Common(d, e)[1] - Common(d, e)[2])
    IN  /\ IsFloat32(d)
        /\ IsFloat32(e) => d = e
        /\ off < 2^7
        /\ off * 2^24 <= Abs(Common(d, e)[2])

\* C13 as stated: for every box with 0 <= x1 <= x2 <= width and 0 <= y1 <= y2 <=
\* height the box (x, y, w, h) = (x1 / width, y1 / height, (x2 - x1) / width,
\* (y2 - y1) / height) emitted by the detector, the instance segmenter and the
\* keypoint processor satisfies 0 <= x, 0 <= y, x + w <= 1 and y + h <= 1; the
\* three emit the same box, and with width = height = 1 it is (x1, y1, x2 - x1,
\* y2 - y1).
C13_BoxInsideUnit ==
    called = "processors" =>
        \A cls \in DOMAIN processor :
          /\ IsRet(result[cls])
          /\ Len(EmittedBy(cls)) = Len(args.cands)
          /\ \A i \in 1..Len(args.cands) :
                LET box == args.cands[i].box
                    b == EmittedBy(cls)[i].bounding_box
                    width == args.frame_size[1]
                    height == args.frame_size[2]
                IN  InsideFrame(box, width, height) =>
                      /\ b = <<RDiv(box[1], RInt(width)),
                               RDiv(box[2], RInt(height)),
                               RDiv(ExactDiff(box[3], box[1]), RInt(width)),
                               RDiv(ExactDiff(box[4], box[2]), RInt(height))>>
                      /\ RLeq(RInt(0), b[1])
                      /\ RLeq(RInt(0), b[2])
                      /\ SumLeqOne(b[1], b[3])
                      /\ SumLeqOne(b[2], b[4])
                      /\ b = EmittedBy("DetectorOutputProcessor")[i].bounding_box
                      /\ (width = 1 /\ height = 1) =>
                            b = <<box[1], box[2], ExactDiff(box[3], box[1]),
                                  ExactDiff(box[4], box[2])>>

\* C13 amended: for every box of float32 corners the detector, the instance
\* segmenter and the keypoint processor emit the same box (x, y, w, h) = (x1 /
\* width, y1 / height, dx / width, dy / height), where dx and dy are x2 - x1 and
\* y2 - y1 rounded to float32; when 0 <= x1 <= x2 <= width and 0 <= y1 <= y2 <=
\* height, x, y, w and h are each in [0, 1] and x + w and y + h are below
\* 1 + 2^-23 (they can exceed 1); with width = height = 1 the box is (x1, y1, dx,
\* dy).
C13_BoxFromRoundedDifference ==
    called = "processors" =>
        \A cls \in DOMAIN processor :
          /\ IsRet(result[cls])
          /\ Len(EmittedBy(cls)) = Len(args.cands)
          /\ \A i \in 1..Len(args.cands) :
                LET box == args.cands[i].box
                    b == EmittedBy(cls)[i].bounding_box
                    width == args.frame_size[1]
                    height == args.frame_size[2]
                IN  /\ b = EmittedBy("DetectorOutputProcessor")[i].bounding_box
                    /\ b[1] = RDiv(box[1], RInt(width))
                    /\ b[2] = RDiv(box[2], RInt(height))
                    /\ RoundedToFloat32(Times(b[3], width), ExactDiff(box[3], box[1]))
                    /\ RoundedToFloat32(Times(b[4], height), ExactDiff(box[4], box[2]))
                    /\ InsideFrame(box, width, height) =>
                          /\ \A k \in 1..4 : RLeq(RInt(0), b[k]) /\ RLeq(b[k], RInt(1))
                          /\ SumNearOne(b[1], b[3])
                          /\ SumNearOne(b[2], b[4])
                    /\ (width = 1 /\ height = 1) =>
                          /\ b[1] = box[1]
                          /\ b[2] = box[2]
                          /\ RoundedToFloat32(b[3], ExactDiff(box[3], box[1]))
                          /\ RoundedToFloat32(b[4], ExactDiff(box[4], box[2]))

\* C13 witness: the three processors emitted, for the box (9 * 2^-23, 0, 3, 1)
\* inside a frame 3 by 1, whose x2 - x1 is no float32, a box with x + w above 1
C13_Witness ==
    /\ called = "processors"
    /\ args.frame_size = <<3, 1>>
    /\ args.cands[1].box = <<Rat(9, 2^23), RInt(0), RInt(3), RInt(1)>>
    /\ InsideFrame(args.cands[1].box, 3, 1)
    /\ ~IsFloat32(ExactDiff(args.cands[1].box[3], args.cands[1].box[1]))
    /\ \A cls \in DOMAIN processor :
          /\ IsRet(result[cls])
          /\ ~SumLeqOne(EmittedBy(cls)[1].bounding_box[1],
                        EmittedBy(cls)[1].bounding_box[3])

----------------------------------------------------------------------------
(* C15: the mask of an instance segmentation *)

\* the plane [H, W] of the soft mask of candidate i, and its rounded box
SoftPlane(i) == SoftMask(args.frame_size, args.cands[i].mask)[1]
Left(i) == Round(args.cands[i].box[1])
Top(i) == Round(args.cands[i].box[2])
Right(i) == Round(args.cands[i].box[3])
Bottom(i) == Round(args.cands[i].box[4])

\* the mask emitted for candidate i has the rows Top..Bottom-1 and the columns
\* Left..Right-1 of the soft mask, which are rows and columns the soft mask has,
\* each pixel true iff its value exceeds mask_thresh
MaskIsCrop(i) ==
    LET mask == EmittedBy("InstanceSegmenterOutputProcessor")[i].mask
        thresh == processor["InstanceSegmenterOutputProcessor"].mask_thresh
    IN  /\ Len(mask) = Bottom(i) - Top(i)
        /\ \A r \in 1..Len(mask) :
              /\ Len(mask[r]) = Right(i) - Left(i)
              /\ \A c \in 1..Len(mask[r]) :
                    /\ Top(i) + r \in 1..Len(SoftPlane(i))
                    /\ Left(i) + c \in 1..Len(SoftPlane(i)[Top(i) + r])
                    /\ mask[r][c] = RLess(thresh, SoftPlane(i)[Top(i) + r][Left(i) + c])
                    /\ args.cands[i].mask = "flat" => mask[r][c] = (thresh = Rat(1, 2))

\* C15 as stated: for every candidate kept by the instance segmenter the mask is
\* the soft mask restricted to rows round(y1)..round(y2)-1 and columns
\* round(x1)..round(x2)-1, with round(y2)-round(y1) rows and round(x2)-round(x1)
\* columns, each pixel true iff the soft-mask value there exceeds mask_thresh; a
\* region uniformly 0.6 is all true at mask_thresh 0.5 and all false at 0.7.
C15_MaskIsCrop ==
    called = "processors" =>
        \A i \in 1..Len(EmittedBy("InstanceSegmenterOutputProcessor")) : MaskIsCrop(i)

\* C15 amended: the same, for every kept candidate whose rounded box lies inside
\* the soft mask: 0 <= round(x1) <= round(x2) <= W and 0 <= round(y1) <= round(y2)
\* <= H for a soft mask of H rows and W columns.
C15_MaskIsCropInside ==
    called = "processors" =>
        \A i \in 1..Len(EmittedBy("InstanceSegmenterOutputProcessor")) :
            (/\ 0 <= Left(i) /\ Left(i) <= Right(i) /\ Right(i) <= args.frame_size[1]
             /\ 0 <= Top(i) /\ Top(i) <= Bottom(i) /\ Bottom(i) <= args.frame_size[2])
                => MaskIsCrop(i)

\* C15 witness: a mask of one pixel was emitted for the box (1, 0.5, 2.5, 1) on a
\* mixed soft mask of a frame 4 by 2: row 0, column 1, whose value 0.4 is below
\* the threshold
C15_Witness ==
    /\ called = "processors"
    /\ args.frame_size = <<4, 2>>
    /\ args.cands[1].box = <<RInt(1), Rat(1, 2), Rat(5, 2), RInt(1)>>
    /\ args.cands[1].mask = "mixed"
    /\ EmittedBy("InstanceSegmenterOutputProcessor")[1].mask = << <<FALSE>> >>

----------------------------------------------------------------------------
(* C14: the image files of the dataset adapters *)

\* C14: when a __getitem__ call of a dataset adapter has finished, by returning an
\* item or by raising, no image file is open: the file the call opened is closed,
\* and so is every file opened by an earlier call.
C14_FilesReleased == called = "__getitem__" => files = {}

====
